---- MODULE Spec2Model ----
(***************************************************************************)
(* Model of the authentication / session subsystem:                        *)
(*   electron/authentication/auth.ts      (unifiedLogin, refreshTokens,    *)
(*                                         validateTokens, parseJwt, ...)  *)
(*   electron/authentication/config.ts    (registry file, secret store)    *)
(*   electron/authentication/pat.ts       (service-credential flow)        *)
(*   electron/authentication/oauth.ts     (delegated flow)                 *)
(*   src/app/services/connection.service  (renderer session manager)       *)
(*   src/app/app.component                (expiry timer)                   *)
(***************************************************************************)
EXTENDS Integers, Sequences, FiniteSets, TLC

VARIABLES
    now,        \* wall clock, in ticks of TickMs milliseconds
    config,     \* the registry file ~/.sailpoint/config.yaml
    files,      \* the secret files ~/.sailpoint/secure/*.enc, by file name
    encAvail,   \* safeStorage.isEncryptionAvailable()
    apiConfig,  \* auth.ts: the shared API configuration
    stack,      \* per task: the chain of pending async calls (callee last)
    done,       \* per task: record of its last finished main-process call
    vt,         \* record of the last validateTokens evaluation
    conn,       \* ConnectionService.connection().connected
    sessionStatus,        \* ConnectionService.sessionStatus
    isSessionRefreshing,  \* ConnectionService.isSessionRefreshing
    display,    \* AppComponent.sessionStatusDisplay
    tueMemo     \* AppComponent.timeUntilExpiry (a memoised computed signal)

vars == <<now, config, files, encAvail, apiConfig, stack, done, vt, conn,
          sessionStatus, isSessionRefreshing, display, tueMemo>>

-----------------------------------------------------------------------------
(* Bounds of the model *)

MaxTick == 3      \* the clock runs over 0..MaxTick
MaxExp == 2       \* exp claims of issued tokens run over 1..MaxExp ticks

TickSec == 5 * 60             \* one tick of the model clock: five minutes
TickMs == TickSec * 1000

NowMs == now * TickMs   \* new Date() / Date.now()

Tasks == {"t1", "t2"}   \* concurrent top-level calls of the view layer

-----------------------------------------------------------------------------
(* Values: every string the program stores or receives is a record          *)
(* [kind, exp]; the empty string is NoVal.                                  *)

NaN == -1      \* an invalid Date / not-a-number
Undef == -2    \* undefined

NoVal == [kind |-> "none", exp |-> 0]
Jwt(e) == [kind |-> "jwt", exp |-> e]        \* well-formed token, exp = e s
NoExpJwt == [kind |-> "noexp", exp |-> 0]    \* well-formed token, no exp claim
BadJwt == [kind |-> "bad", exp |-> 0]        \* not header.payload.signature
Iso(ms) == [kind |-> "iso", exp |-> ms]      \* Date.toISOString() of ms
Cred(n) == [kind |-> "cred", exp |-> n]      \* a client identifier or secret

Truthy(v) == v.kind # "none"

\* Date comparison: any comparison with an invalid Date is false
DateLt(a, b) == a # NaN /\ b # NaN /\ a < b
DateLeq(a, b) == a # NaN /\ b # NaN /\ a <= b

\* Date.prototype.toISOString: throws RangeError on an invalid Date
ToISOString(ms) == IF ms = NaN THEN [throw |-> TRUE, val |-> NoVal]
                   ELSE [throw |-> FALSE, val |-> Iso(ms)]

\* new Date(isoString)
NewDate(v) == IF v.kind = "iso" THEN v.exp ELSE NaN

-----------------------------------------------------------------------------
(* Token Codec *)

\* auth.ts parseJwt: the claims of the middle segment, or an exception
ParseJwt(token) ==
    CASE token.kind = "jwt" -> [throw |-> FALSE, exp |-> token.exp]
      [] token.kind = "noexp" -> [throw |-> FALSE, exp |-> NaN]
      [] OTHER -> [throw |-> TRUE, exp |-> NaN]

\* exp * 1000 (NaN when exp is undefined)
ExpToMs(exp) == IF exp = NaN THEN NaN ELSE exp * 1000

\* auth.ts getTokenDetails, on the parsed claims p
TokenDetailsOf(p) == [throw |-> p.throw, expiry |-> ExpToMs(p.exp)]

\* auth.ts getTokenDetails
GetTokenDetails(token) == TokenDetailsOf(ParseJwt(token))

\* a variant that never finds a token expired
CheckTokenExpired_Never(token, nowMs) ==
    [throw |-> ParseJwt(token).throw, expired |-> FALSE]

\* auth.ts checkTokenExpired lines 723-725, on the parsed claims p
ExpiredAt(p, nowMs) ==
    [throw |-> p.throw, expired |-> DateLt(ExpToMs(p.exp), nowMs)]

\* auth.ts checkTokenExpired: expiry < now
CheckTokenExpired(token, nowMs) == ExpiredAt(ParseJwt(token), nowMs)

-----------------------------------------------------------------------------
(* Secret Store *)

KPatId == "environments.pat.clientid"
KPatSecret == "environments.pat.clientsecret"
KPatAccess == "environments.pat.accesstoken"
KPatExpiry == "environments.pat.expiry"
KOAccess == "environments.oauth.accesstoken"
KOExpiry == "environments.oauth.expiry"
KORefresh == "environments.oauth.refreshtoken"
KORefreshExpiry == "environments.oauth.refreshexpiry"

PatKeys == {KPatId, KPatSecret, KPatAccess, KPatExpiry}
OAuthKeys == {KOAccess, KOExpiry, KORefresh, KORefreshExpiry}
Keys == PatKeys \cup OAuthKeys

\* environment names, as the characters they are made of
EnvChars ==
    [n \in {"prod", "ghost", "constructor", "__proto__", "prod-eu", "prod_eu"} |->
        CASE n = "prod" -> <<"p", "r", "o", "d">>
          [] n = "ghost" -> <<"g", "h", "o", "s", "t">>
          [] n = "prod-eu" -> <<"p", "r", "o", "d", "-", "e", "u">>
          [] n = "prod_eu" -> <<"p", "r", "o", "d", "_", "e", "u">>
          [] n = "constructor" ->
                <<"c", "o", "n", "s", "t", "r", "u", "c", "t", "o", "r">>
          [] n = "__proto__" -> <<"_", "_", "p", "r", "o", "t", "o", "_", "_">>]

\* the names the callers of auth.ts pass
EnvNames == {"prod", "ghost"}

\* names every object inherits a property for from Object.prototype
InheritedKeys == {"constructor", "__proto__"}

\* the names the registry calls take: any string the user typed
RegistryNames == {"prod"} \cup InheritedKeys

AlphaNum == {"p", "r", "o", "d", "g", "h", "s", "t", "c", "n", "u", "e"}

\* config.ts formatSecureFilename: environment.replace(/[^a-zA-Z0-9]/g, '_')
SafeEnv(environment) ==
    [i \in DOMAIN EnvChars[environment] |->
        IF EnvChars[environment][i] \in AlphaNum
        THEN EnvChars[environment][i] ELSE "_"]

\* config.ts buildSecretFilePath: `${safeKey}_${safeEnv}.enc`
BuildSecretFilePath(key, environment) == <<key, SafeEnv(environment)>>

FileNames == {BuildSecretFilePath(k, e) : k \in Keys, e \in DOMAIN EnvChars}

\* a secret file: absent, or the bytes safeStorage.encryptString made of a value
NoFile == [exists |-> FALSE, data |-> NoVal]
EncryptString(value) == [exists |-> TRUE, data |-> value]
DecryptString(encryptedData) == encryptedData.data

\* config.ts getSecureValue lines 330-343, on the file at filePath
ReadSecret(file) == IF ~file.exists THEN NoVal ELSE DecryptString(file)

\* config.ts getSecureValue lines 325-343: the try block, on the store f
GetSecureValueTry(f, key, environment) ==
    IF ~encAvail THEN [throw |-> TRUE, val |-> NoVal]
    ELSE [throw |-> FALSE,
          val |-> ReadSecret(f[BuildSecretFilePath(key, environment)])]

\* a variant whose catch block throws the error on
GetSecureValueCatch_Rethrow(r) == r

\* config.ts getSecureValue lines 344-347: the catch block returns ''
GetSecureValueCatch(r) ==
    IF r.throw THEN [throw |-> FALSE, val |-> NoVal] ELSE r

\* config.ts getSecureValue, on the store f: what the call returns or throws
GetSecureValueResult(f, key, environment) ==
    GetSecureValueCatch(GetSecureValueTry(f, key, environment))

\* the value getSecureValue returns: '' when the file is absent or on any
\* error (the 'Encryption not available' exception is caught inside)
GetSecureValue(f, key, environment) ==
    GetSecureValueResult(f, key, environment).val

\* a variant that leaves the file alone when the value is the empty string
SetSecureValue_SkipEmpty(f, key, environment, value) ==
    IF ~encAvail THEN [throw |-> TRUE, files |-> f]
    ELSE IF ~Truthy(value) THEN [throw |-> FALSE, files |-> f]
    ELSE [throw |-> FALSE,
          files |-> [f EXCEPT ![BuildSecretFilePath(key, environment)] =
                                    EncryptString(value)]]

\* config.ts setSecureValue, on the store f: the new store, or an exception
SetSecureValue(f, key, environment, value) ==
    IF ~encAvail THEN [throw |-> TRUE, files |-> f]
    ELSE [throw |-> FALSE,
          files |-> [f EXCEPT ![BuildSecretFilePath(key, environment)] =
                                    EncryptString(value)]]

\* config.ts deleteSecureValue, on the store f
DeleteSecureValue(f, key, environment) ==
    [f EXCEPT ![BuildSecretFilePath(key, environment)] = NoFile]

\* a sequence of setSecureValue calls <<key, value-or-exception>>, stopping at
\* the first exception (of the value's computation or of the write)
RECURSIVE WriteAll(_, _, _)
WriteAll(f, environment, writes) ==
    IF writes = <<>> THEN [throw |-> FALSE, files |-> f]
    ELSE LET w == Head(writes)
         IN  IF w[2].throw THEN [throw |-> TRUE, files |-> f]
             ELSE LET r == SetSecureValue(f, w[1], environment, w[2].val)
                  IN  IF r.throw THEN r
                      ELSE WriteAll(r.files, environment, Tail(writes))

Plain(v) == [throw |-> FALSE, val |-> v]

-----------------------------------------------------------------------------
(* Environment Registry *)

NoConfig == [readable |-> FALSE, authtype |-> "oauth",
             activeenvironment |-> "", environments |-> <<>>]

\* config.ts getConfig: throws when the file cannot be read
GetConfig == [throw |-> ~config.readable, config |-> config]

\* config.environments[name], or Undef
EnvIndex(cfg, name) ==
    LET hits == {i \in DOMAIN cfg.environments : cfg.environments[i].name = name}
    IN  IF hits = {} THEN 0 ELSE CHOOSE i \in hits : TRUE

HasEnv(cfg, name) == EnvIndex(cfg, name) # 0

\* !config.environments[name] is false: the registry has an entry of that
\* name, or the name is a property the environments object inherits
EntryTruthy(cfg, name) == HasEnv(cfg, name) \/ name \in InheritedKeys
EnvOf(cfg, name) == cfg.environments[EnvIndex(cfg, name)]

\* auth.ts getGlobalAuthType: 'oauth' when the registry is unreadable
GetGlobalAuthType == IF config.readable THEN config.authtype ELSE "oauth"

-----------------------------------------------------------------------------
(* Stored token sets *)

NoOAuthTokens == [present |-> FALSE, accessToken |-> NoVal, accessExpiry |-> NaN,
                  refreshToken |-> NoVal, refreshExpiry |-> NaN]

\* oauth.ts getStoredOAuthTokens lines 77-86, on the four values read
OAuthTokenSet(accessToken, accessExpiry, refreshToken, refreshExpiry) ==
    IF ~Truthy(accessToken) \/ ~Truthy(accessExpiry)
       \/ ~Truthy(refreshToken) \/ ~Truthy(refreshExpiry)
    THEN NoOAuthTokens
    ELSE [present |-> TRUE, accessToken |-> accessToken,
          accessExpiry |-> NewDate(accessExpiry),
          refreshToken |-> refreshToken,
          refreshExpiry |-> NewDate(refreshExpiry)]

\* oauth.ts getStoredOAuthTokens: undefined unless all four secrets are set
GetStoredOAuthTokens(f, environment) ==
    OAuthTokenSet(GetSecureValue(f, KOAccess, environment),
                  GetSecureValue(f, KOExpiry, environment),
                  GetSecureValue(f, KORefresh, environment),
                  GetSecureValue(f, KORefreshExpiry, environment))

NoPATTokens == [present |-> FALSE, accessToken |-> NoVal, accessExpiry |-> NaN,
                clientId |-> NoVal, clientSecret |-> NoVal]

\* pat.ts getStoredPATTokens lines 465-469, on the four values read
PATTokenSet(accessToken, accessExpiry, clientId, clientSecret) ==
    IF ~Truthy(clientId) \/ ~Truthy(clientSecret)
    THEN NoPATTokens
    ELSE [present |-> TRUE, accessToken |-> accessToken,
          accessExpiry |-> NewDate(accessExpiry),
          clientId |-> clientId, clientSecret |-> clientSecret]

\* pat.ts getStoredPATTokens: undefined unless client id and secret are set
GetStoredPATTokens(f, environment) ==
    PATTokenSet(GetSecureValue(f, KPatAccess, environment),
                GetSecureValue(f, KPatExpiry, environment),
                GetSecureValue(f, KPatId, environment),
                GetSecureValue(f, KPatSecret, environment))

\* oauth.ts storeOAuthTokens: four writes in order; toISOString may throw
StoreOAuthTokens(f, environment, accessToken, accessExpiry, refreshToken, refreshExpiry) ==
    IF ~Truthy(refreshToken)
    THEN [throw |-> TRUE, files |-> f]
    ELSE WriteAll(f, environment,
            << <<KOAccess, Plain(accessToken)>>,
               <<KOExpiry, ToISOString(accessExpiry)>>,
               <<KORefresh, Plain(refreshToken)>>,
               <<KORefreshExpiry, ToISOString(refreshExpiry)>> >>)

\* a variant that writes the access token under the client identifier's key
StorePATTokens_OverCredentials(f, environment, accessToken, accessExpiry) ==
    WriteAll(f, environment,
        << <<KPatId, Plain(accessToken)>>,
           <<KPatExpiry, ToISOString(accessExpiry)>> >>)

\* pat.ts storePATTokens: two writes in order
StorePATTokens(f, environment, accessToken, accessExpiry) ==
    WriteAll(f, environment,
        << <<KPatAccess, Plain(accessToken)>>,
           <<KPatExpiry, ToISOString(accessExpiry)>> >>)

-----------------------------------------------------------------------------
(* Local validation *)

FiveMinutes == 5 * 60 * 1000

VResult(isValid, needsRefresh, expiry) ==
    [isValid |-> isValid, needsRefresh |-> needsRefresh, expiry |-> expiry]

\* a variant without the refresh-token expiry check of lines 135-140
OAuthStatus_NoRefreshCheck(storedTokens, refreshTokenDetails, accessTokenDetails, nowMs) ==
    CASE ~storedTokens.present -> VResult(FALSE, FALSE, Undef)
      [] refreshTokenDetails.throw -> VResult(FALSE, FALSE, Undef)
      [] accessTokenDetails.throw -> VResult(FALSE, FALSE, Undef)
      [] DateLeq(accessTokenDetails.expiry, nowMs + FiveMinutes) ->
            VResult(FALSE, TRUE, accessTokenDetails.expiry)
      [] OTHER -> VResult(TRUE, FALSE, accessTokenDetails.expiry)

\* oauth.ts validateOAuthTokens lines 125-157, on the stored set and the
\* details of its two tokens
OAuthStatus(storedTokens, refreshTokenDetails, accessTokenDetails, nowMs) ==
    CASE ~storedTokens.present -> VResult(FALSE, FALSE, Undef)
      [] refreshTokenDetails.throw -> VResult(FALSE, FALSE, Undef)
      [] DateLt(refreshTokenDetails.expiry, nowMs) ->
            VResult(FALSE, FALSE, refreshTokenDetails.expiry)
      [] accessTokenDetails.throw -> VResult(FALSE, FALSE, Undef)
      [] DateLeq(accessTokenDetails.expiry, nowMs + FiveMinutes) ->
            VResult(FALSE, TRUE, accessTokenDetails.expiry)
      [] OTHER -> VResult(TRUE, FALSE, accessTokenDetails.expiry)

\* oauth.ts validateOAuthTokens lines 136, 144: getTokenDetails of both tokens
ValidateOAuthSet(storedTokens, nowMs) ==
    OAuthStatus(storedTokens, GetTokenDetails(storedTokens.refreshToken),
                GetTokenDetails(storedTokens.accessToken), nowMs)

\* oauth.ts validateOAuthTokens
ValidateOAuthTokens(f, environment, nowMs) ==
    ValidateOAuthSet(GetStoredOAuthTokens(f, environment), nowMs)

\* a variant that sees nothing to refresh when no access token is stored
PATStatus_AbsentNotRefreshable(storedTokens, accessTokenDetails, nowMs) ==
    CASE ~storedTokens.present \/ ~Truthy(storedTokens.accessToken) ->
            VResult(FALSE, FALSE, Undef)
      [] accessTokenDetails.throw -> VResult(FALSE, FALSE, Undef)
      [] DateLt(accessTokenDetails.expiry, nowMs) ->
            VResult(FALSE, TRUE, accessTokenDetails.expiry)
      [] OTHER -> VResult(TRUE, FALSE, Undef)

\* pat.ts validatePATToken lines 485-504, on the stored set and the details
\* of its access token
PATStatus(storedTokens, accessTokenDetails, nowMs) ==
    CASE ~storedTokens.present \/ ~Truthy(storedTokens.accessToken) ->
            VResult(FALSE, TRUE, Undef)
      [] accessTokenDetails.throw -> VResult(FALSE, FALSE, Undef)
      [] DateLt(accessTokenDetails.expiry, nowMs) ->
            VResult(FALSE, TRUE, accessTokenDetails.expiry)
      [] OTHER -> VResult(TRUE, FALSE, Undef)

\* pat.ts validatePATToken line 490: getTokenDetails of the access token
ValidatePATSet(storedTokens, nowMs) ==
    PATStatus(storedTokens, GetTokenDetails(storedTokens.accessToken), nowMs)

\* pat.ts validatePATToken
ValidatePATToken(f, environment, nowMs) ==
    ValidatePATSet(GetStoredPATTokens(f, environment), nowMs)

\* auth.ts validateTokens lines 732-741: the result with its authType
TokenStatus(r, authType) ==
    [isValid |-> r.isValid, needsRefresh |-> r.needsRefresh,
     expiry |-> r.expiry, authType |-> authType]

\* auth.ts validateTokens: synchronous, no network request
ValidateTokens(f, environment, nowMs) ==
    IF GetGlobalAuthType = "oauth"
    THEN TokenStatus(ValidateOAuthTokens(f, environment, nowMs), "oauth")
    ELSE TokenStatus(ValidatePATToken(f, environment, nowMs), "pat")

-----------------------------------------------------------------------------
(* Remote endpoints: what a response may carry *)

ExpSecs == {k * TickSec : k \in 1..MaxExp}
RespTokens == {Jwt(e) : e \in ExpSecs} \cup {NoExpJwt, BadJwt}

\* (d) refresh endpoint and (c) decrypted poll payload: non-success, or
\* {access_token, refresh_token}, either possibly missing
PairResponses ==
    {[ok |-> FALSE, decoded |-> FALSE, access |-> NoVal, refresh |-> NoVal]}
    \cup {[ok |-> TRUE, decoded |-> TRUE, access |-> a, refresh |-> r] :
            a \in RespTokens \cup {NoVal}, r \in RespTokens \cup {NoVal}}

\* (c) polling endpoint: also a success whose payload does not decrypt or parse
PollResponses ==
    PairResponses
    \cup {[ok |-> TRUE, decoded |-> FALSE, access |-> NoVal, refresh |-> NoVal]}

\* (a) client-credentials token endpoint: non-success, or {access_token}
TokenResponses ==
    {[ok |-> FALSE, decoded |-> FALSE, access |-> NoVal, refresh |-> NoVal]}
    \cup {[ok |-> TRUE, decoded |-> TRUE, access |-> a, refresh |-> NoVal] :
            a \in RespTokens \cup {NoVal}}

-----------------------------------------------------------------------------
(* Facts about the stores at the start of a call, read off the files directly *)

ModeKeys(authType) == IF authType = "oauth" THEN OAuthKeys ELSE PatKeys
AccessKey(authType) == IF authType = "oauth" THEN KOAccess ELSE KPatAccess

IsPast(token, nowMs) == token.kind = "jwt" /\ token.exp * 1000 < nowMs

Facts(f, environment, nowMs) ==
    LET authType == IF config.readable THEN config.authtype ELSE "oauth"
        file(k) == ReadSecret(f[BuildSecretFilePath(k, environment)])
    IN  [authType |-> authType,
         active |-> config.activeenvironment,
         envExists |-> config.readable /\ HasEnv(config, environment),
         tenantSet |-> config.readable /\ HasEnv(config, environment)
                        /\ EnvOf(config, environment).tenanturl # "",
         patConfigured |-> file(KPatId) # NoVal /\ file(KPatSecret) # NoVal,
         absent |-> \A k \in ModeKeys(authType) : file(k) = NoVal,
         complete |-> IF authType = "oauth"
                      THEN \A k \in OAuthKeys : file(k) # NoVal
                      ELSE file(KPatId) # NoVal /\ file(KPatSecret) # NoVal,
         accessAbsent |-> file(AccessKey(authType)) = NoVal,
         accessExpired |-> IsPast(file(AccessKey(authType)), nowMs),
         refreshExpired |-> authType = "oauth" /\ IsPast(file(KORefresh), nowMs),
         corrupt |-> \/ file(AccessKey(authType)).kind = "bad"
                     \/ authType = "oauth" /\ file(KORefresh).kind = "bad",
         isValid |-> FALSE, needsRefresh |-> FALSE]

NoPre == [authType |-> "oauth", active |-> "", envExists |-> FALSE,
          tenantSet |-> FALSE,
          patConfigured |-> FALSE, absent |-> TRUE, complete |-> FALSE,
          accessAbsent |-> TRUE,
          accessExpired |-> FALSE, refreshExpired |-> FALSE, corrupt |-> FALSE,
          isValid |-> FALSE, needsRefresh |-> FALSE]

-----------------------------------------------------------------------------
(* refreshTokens *)

Imm(ok, err) == [imm |-> TRUE, ok |-> ok, err |-> err, pc |-> "-"]
Susp(pc) == [imm |-> FALSE, ok |-> FALSE, err |-> "", pc |-> pc]

\* getConfig() succeeds and config.environments[environment] is set
ConfigHas(environment) == ~GetConfig.throw /\ HasEnv(config, environment)

\* auth.ts refreshTokens lines 336-349 and oauth.ts refreshOAuthToken lines
\* 276-296, on the stored set o and the expiry check x of its refresh token
RefreshOAuthStart(o, x, ready) ==
    CASE ~o.present \/ ~Truthy(o.refreshToken) ->
            Imm(FALSE, "No refresh token available for OAuth refresh")
      [] x.throw -> Imm(FALSE, "Error refreshing tokens")
      [] x.expired -> Imm(FALSE, "Refresh token has expired")
      [] ~ready -> Imm(FALSE, "Error refreshing tokens")
      [] OTHER -> Susp("fetchOAuth")

\* auth.ts refreshTokens line 342: checkTokenExpired of the refresh token
RefreshOAuthTokensStart(o, nowMs, ready) ==
    RefreshOAuthStart(o, CheckTokenExpired(o.refreshToken, nowMs), ready)

\* pat.ts refreshPATToken lines 517-530, on the stored set p
RefreshPATStart(p, ready) ==
    CASE ~p.present -> Imm(FALSE, "Error refreshing tokens")
      [] ~ready -> Imm(FALSE, "Error refreshing tokens")
      [] OTHER -> Susp("fetchPAT")

\* auth.ts refreshTokens with oauth.ts refreshOAuthToken / pat.ts
\* refreshPATToken, up to the network request
RefreshTokensStart(f, environment, nowMs) ==
    IF GetGlobalAuthType = "oauth"
    THEN RefreshOAuthTokensStart(GetStoredOAuthTokens(f, environment), nowMs,
                                 ConfigHas(environment))
    ELSE RefreshPATStart(GetStoredPATTokens(f, environment),
                         ConfigHas(environment))

Fin(ok, err, f, stored) == [ok |-> ok, err |-> err, files |-> f, stored |-> stored]

\* oauth.ts refreshOAuthToken lines 304-333, on the parsed claims a, r and
\* the outcome w of storeOAuthTokens
RefreshOAuthOutcome(f, resp, a, r, w) ==
    CASE ~resp.ok -> Fin(FALSE, "Error refreshing tokens", f, FALSE)
      [] ~Truthy(resp.access) -> Fin(FALSE, "Error refreshing tokens", f, FALSE)
      [] ~Truthy(resp.refresh) -> Fin(FALSE, "Error refreshing tokens", f, FALSE)
      [] a.throw \/ r.throw -> Fin(FALSE, "Error refreshing tokens", f, FALSE)
      [] w.throw -> Fin(FALSE, "Error refreshing tokens", w.files, TRUE)
      [] OTHER -> Fin(TRUE, "", w.files, TRUE)

\* oauth.ts refreshOAuthToken lines 323-331: the token set is stored
RefreshOAuthStore(f, environment, resp, a, r) ==
    RefreshOAuthOutcome(f, resp, a, r,
        StoreOAuthTokens(f, environment, resp.access, ExpToMs(a.exp),
                         resp.refresh, ExpToMs(r.exp)))

\* oauth.ts refreshOAuthToken from the response on, as seen by refreshTokens
RefreshOAuthTokenResume(f, environment, resp) ==
    RefreshOAuthStore(f, environment, resp, ParseJwt(resp.access),
                      ParseJwt(resp.refresh))

\* the outcome of a store made whatever the response said
StoredUnchecked(w) ==
    IF w.throw THEN Fin(FALSE, "Error refreshing tokens", w.files, TRUE)
    ELSE Fin(TRUE, "", w.files, TRUE)

\* a variant that stores whatever the response carries, success or not
RefreshPATTokenResume_Unchecked(f, environment, resp) ==
    StoredUnchecked(StorePATTokens(f, environment, resp.access,
                                   ExpToMs(ParseJwt(resp.access).exp)))

\* pat.ts refreshPATToken lines 540-556, on the parsed claims a and the
\* outcome w of storePATTokens
RefreshPATOutcome(f, resp, a, w) ==
    CASE ~resp.ok -> Fin(FALSE, "Error refreshing tokens", f, FALSE)
      [] a.throw -> Fin(FALSE, "Error refreshing tokens", f, FALSE)
      [] w.throw -> Fin(FALSE, "Error refreshing tokens", w.files, TRUE)
      [] OTHER -> Fin(TRUE, "", w.files, TRUE)

\* pat.ts refreshPATToken lines 548-553: the access token is stored
RefreshPATStore(f, environment, resp, a) ==
    RefreshPATOutcome(f, resp, a,
        StorePATTokens(f, environment, resp.access, ExpToMs(a.exp)))

\* pat.ts refreshPATToken from the response on, as seen by refreshTokens
RefreshPATTokenResume(f, environment, resp) ==
    RefreshPATStore(f, environment, resp, ParseJwt(resp.access))

-----------------------------------------------------------------------------
(* unifiedLogin, up to its first await *)

Plan(kind, pc, err, setsConfig) ==
    [kind |-> kind, pc |-> pc, err |-> err, setsConfig |-> setsConfig]

\* a variant that starts either flow without looking at what is configured
StartFromScratch_NoChecks(f, environment, authType) ==
    IF authType = "oauth" THEN Plan("uuid", "uuid", "", TRUE)
    ELSE Plan("probe", "probePat", "", TRUE)

\* auth.ts unifiedLogin lines 229-294: the registry is rewritten, then the
\* flow of the global auth mode starts if its prerequisite is configured
StartFromScratch(f, environment, authType) ==
    IF authType = "oauth"
    THEN IF EnvOf(config, environment).tenanturl = ""
         THEN Plan("return", "-", "Tenant is required for OAuth login", TRUE)
         ELSE Plan("uuid", "uuid", "", TRUE)
    ELSE IF ~GetStoredPATTokens(f, environment).present
         THEN Plan("return", "-",
                   "Client ID and Client Secret are required for PAT login", TRUE)
         ELSE Plan("probe", "probePat", "", TRUE)

\* auth.ts unifiedLogin lines 112-119, 173: the stored set of the auth mode
StoredTokensPresent(f, environment, authType) ==
    IF authType = "oauth" THEN GetStoredOAuthTokens(f, environment).present
    ELSE GetStoredPATTokens(f, environment).present

\* auth.ts unifiedLogin lines 104-228, on the status validateTokens returned
UnifiedLoginOn(f, environment, authType, tokenStatus) ==
    CASE tokenStatus.authType = authType /\ tokenStatus.isValid ->
            IF ~StoredTokensPresent(f, environment, authType)
            THEN Plan("return", "-", "No tokens found for environment", FALSE)
            ELSE Plan("probe", "probeValid", "", FALSE)
      [] tokenStatus.authType = authType /\ tokenStatus.needsRefresh ->
            Plan("refresh", "refreshing", "", FALSE)
      [] OTHER -> StartFromScratch(f, environment, authType)

\* auth.ts unifiedLogin lines 81-228: what the call does before it first waits
UnifiedLoginPlan(f, environment, nowMs) ==
    IF GetConfig.throw THEN Plan("return", "-", "config unreadable", FALSE)
    ELSE IF ~HasEnv(config, environment)
    THEN Plan("return", "-", "Environment not found in configuration", FALSE)
    ELSE UnifiedLoginOn(f, environment, GetGlobalAuthType,
                        ValidateTokens(f, environment, nowMs))

\* auth.ts unifiedLogin lines 229-234: config.authtype / activeenvironment
SetLoginConfig(cfg, environment) ==
    [cfg EXCEPT !.authtype = GetGlobalAuthType, !.activeenvironment = environment]

-----------------------------------------------------------------------------
(* Delegated login: one poll *)

PollOut(kind, err, f, stored) ==
    [kind |-> kind, err |-> err, files |-> f, stored |-> stored]

\* a variant that gives the attempt up on the first non-success response
PollOutcome_FailFast(f, resp, a, r, w) ==
    CASE ~resp.ok -> PollOut("return", "OAuth login failed", f, FALSE)
      [] ~resp.decoded -> PollOut("sleep", "", f, FALSE)
      [] ~Truthy(resp.access) ->
            PollOut("return", "OAuth response missing access token", f, FALSE)
      [] ~Truthy(resp.refresh) ->
            PollOut("return", "OAuth response missing refresh token", f, FALSE)
      [] a.throw \/ r.throw -> PollOut("sleep", "", f, FALSE)
      [] w.throw -> PollOut("sleep", "", w.files, TRUE)
      [] OTHER -> PollOut("success", "", w.files, TRUE)

\* oauth.ts OAuthLogin lines 215-248, on the parsed claims a, r and the
\* outcome w of storeOAuthTokens
PollOutcome(f, resp, a, r, w) ==
    CASE ~resp.ok -> PollOut("sleep", "", f, FALSE)
      [] ~resp.decoded -> PollOut("sleep", "", f, FALSE)
      [] ~Truthy(resp.access) ->
            PollOut("return", "OAuth response missing access token", f, FALSE)
      [] ~Truthy(resp.refresh) ->
            PollOut("return", "OAuth response missing refresh token", f, FALSE)
      [] a.throw \/ r.throw -> PollOut("sleep", "", f, FALSE)
      [] w.throw -> PollOut("sleep", "", w.files, TRUE)
      [] OTHER -> PollOut("success", "", w.files, TRUE)

\* oauth.ts OAuthLogin lines 240-247: the token set is stored
PollStore(f, environment, resp, a, r) ==
    PollOutcome(f, resp, a, r,
        StoreOAuthTokens(f, environment, resp.access, ExpToMs(a.exp),
                         resp.refresh, ExpToMs(r.exp)))

\* oauth.ts OAuthLogin lines 212-252: the body of the polling loop on a response
OAuthLoginPoll(f, environment, resp) ==
    PollStore(f, environment, resp, ParseJwt(resp.access), ParseJwt(resp.refresh))

PollTimeout == 5 * 60 * 1000

-----------------------------------------------------------------------------
(* Calls in progress *)

NoRet == [set |-> FALSE, ok |-> FALSE, err |-> "", isValid |-> FALSE,
          needsRefresh |-> FALSE, expiry |-> Undef]
RetOf(ok, err) == [NoRet EXCEPT !.set = TRUE, !.ok = ok, !.err = err]

Frame(fn, pc, environment) ==
    [fn |-> fn, pc |-> pc, env |-> environment, ret |-> NoRet, ev |-> <<>>,
     pre |-> NoPre, t0 |-> 0]

\* the request of a call that takes none
NoArg == [environmentName |-> "", tenantUrl |-> "", baseUrl |-> "",
          authType |-> "oauth", clientId |-> NoVal, clientSecret |-> NoVal]

NoDone == [fn |-> "none", env |-> "prod", ok |-> FALSE, err |-> "", ev |-> <<>>,
           pre |-> NoPre, arg |-> NoArg, was |-> NoConfig]
NoVt == [called |-> FALSE, env |-> "prod", at |-> 0, net |-> <<>>, pre |-> NoPre]

\* the renderer reads one current environment
CurrentEnvironment == "prod"

Top(st) == st[Len(st)]
Below(st) == SubSeq(st, 1, Len(st) - 1)
SetRet(st, ret) == [st EXCEPT ![Len(st)].ret = ret]

\* what one step of task t reads and may change; vt and done are records of
\* the step just taken and hold for one state only
Sigma(t) ==
    [st |-> stack[t], files |-> files, config |-> config, apiConfig |-> apiConfig,
     vt |-> NoVt, done |-> NoDone, conn |-> conn, flag |-> isSessionRefreshing,
     ss |-> sessionStatus, memo |-> tueMemo]

Apply(t, S) ==
    /\ stack' = [stack EXCEPT ![t] = S.st]
    /\ files' = S.files
    /\ config' = S.config
    /\ apiConfig' = S.apiConfig
    /\ vt' = S.vt
    /\ done' = [u \in Tasks |-> IF u = t THEN S.done ELSE NoDone]
    /\ conn' = S.conn
    /\ isSessionRefreshing' = S.flag
    /\ sessionStatus' = S.ss
    /\ tueMemo' = S.memo
    /\ UNCHANGED <<now, encAvail, display>>

WithStatus(facts, r) ==
    [facts EXCEPT !.isValid = r.isValid, !.needsRefresh = r.needsRefresh]

\* the record of one validateTokens evaluation; it issues no request
VtRecord(f, environment, nowMs) ==
    [called |-> TRUE, env |-> environment, at |-> nowMs, net |-> <<>>,
     pre |-> WithStatus(Facts(f, environment, nowMs),
                        ValidateTokens(f, environment, nowMs))]

\* a variant whose failures carry no error string
Reply_NoError(S, below, fr, ok, err) ==
    [S EXCEPT !.st = IF below = <<>> THEN <<>> ELSE SetRet(below, RetOf(ok, "")),
              !.done = [fn |-> fr.fn, env |-> fr.env, ok |-> ok, err |-> "",
                        ev |-> fr.ev, pre |-> fr.pre, arg |-> NoArg,
                        was |-> NoConfig]]

\* a main-process call fr, invoked over IPC, returns {success, error}
Reply(S, below, fr, ok, err) ==
    [S EXCEPT !.st = IF below = <<>> THEN <<>> ELSE SetRet(below, RetOf(ok, err)),
              !.done = [fn |-> fr.fn, env |-> fr.env, ok |-> ok, err |-> err,
                        ev |-> fr.ev, pre |-> fr.pre, arg |-> NoArg,
                        was |-> NoConfig]]

AddEv(fr, e) == [fr EXCEPT !.ev = @ \o e]

ProbeConfig(authType) == IF authType = "oauth" THEN "token" ELSE "pat"

\* auth.ts connectToISCWithToken / connectToISCWithPAT up to the getTenant
\* request: apiConfig is replaced before the request is made
StartProbe(S, below, fr, pc) ==
    [S EXCEPT !.apiConfig = ProbeConfig(fr.pre.authType),
              !.st = below \o <<[AddEv(fr, <<"probe">>) EXCEPT !.pc = pc]>>]

\* auth.ts refreshTokens lines 329-359: it returns at once or awaits the
\* refresh request
RefreshTokensBegin(S, below, fr, rt) ==
    IF rt.imm THEN Reply(S, below, fr, rt.ok, rt.err)
    ELSE [S EXCEPT !.st = below \o <<AddEv([fr EXCEPT !.pc = rt.pc],
                                           <<"refreshReq">>)>>]

\* auth.ts refreshTokens invoked over IPC
InvokeRT(S, below, environment) ==
    RefreshTokensBegin(S, below,
        [Frame("RT", "-", environment) EXCEPT
            !.pre = Facts(S.files, environment, NowMs)],
        RefreshTokensStart(S.files, environment, NowMs))

\* auth.ts unifiedLogin lines 104-310: the first await of the planned path
UnifiedLoginBegin(S, below, fr, plan, rt) ==
    CASE plan.kind = "return" -> Reply(S, below, fr, FALSE, plan.err)
      [] plan.kind = "probe" -> StartProbe(S, below, fr, plan.pc)
      [] plan.kind = "uuid" ->
            [S EXCEPT !.st = below \o <<AddEv(fr, <<"uuidReq">>)>>]
      [] OTHER ->
            IF rt.imm
            THEN Reply(S, below, AddEv(fr, <<"rt">>), FALSE, rt.err)
            ELSE [S EXCEPT !.st = below \o
                    <<AddEv(fr, <<"rt">>),
                      AddEv([Frame("RT", rt.pc, fr.env) EXCEPT !.pre = fr.pre],
                            <<"refreshReq">>)>>]

\* the call in progress: what held when it started, and the registry write
ULFrame(environment, plan, pre) ==
    [Frame("UL", plan.pc, environment) EXCEPT
        !.pre = pre,
        !.ev = IF plan.setsConfig THEN <<"setConfig">> ELSE <<>>]

\* auth.ts unifiedLogin lines 104, 229-234: validateTokens was evaluated if
\* the environment was found; setConfig rewrites the registry
ULState(S, environment, plan, v, validated) ==
    [S EXCEPT !.vt = IF validated THEN v ELSE @,
              !.config = IF plan.setsConfig
                         THEN SetLoginConfig(@, environment) ELSE @]

NotValidated(pre) == [pre EXCEPT !.isValid = FALSE, !.needsRefresh = FALSE]

UnifiedLoginWith(S, below, environment, plan, v, validated, rt) ==
    UnifiedLoginBegin(ULState(S, environment, plan, v, validated), below,
                      ULFrame(environment, plan,
                              IF validated THEN v.pre ELSE NotValidated(v.pre)),
                      plan, rt)

\* auth.ts unifiedLogin invoked over IPC, up to its first await
InvokeUL(S, below, environment) ==
    UnifiedLoginWith(S, below, environment,
                     UnifiedLoginPlan(S.files, environment, NowMs),
                     VtRecord(S.files, environment, NowMs),
                     S.config.readable /\ HasEnv(S.config, environment),
                     RefreshTokensStart(S.files, environment, NowMs))

\* auth.ts unifiedLogin lines 173, 186: the stored set read after the refresh
HasStoredAccess(f, environment, authType) ==
    IF authType = "oauth"
    THEN Truthy(GetStoredOAuthTokens(f, environment).accessToken)
    ELSE GetStoredPATTokens(f, environment).present

\* auth.ts unifiedLogin lines 177-220: after `await refreshTokens`
UnifiedLoginAfterRefresh(S, below, fr, fin) ==
    CASE ~fin.ok -> Reply(S, below, fr, FALSE, fin.err)
      [] ~HasStoredAccess(S.files, fr.env, fr.pre.authType) ->
            Reply(S, below, fr, FALSE, "No tokens found for environment")
      [] OTHER -> StartProbe(S, below, fr, "probeRefreshed")

\* what the refresh request and its answer add to a trace
RefreshEvents(rtfr, resp, fin) ==
    <<IF ~resp.ok THEN "rFail"
      ELSE IF Truthy(resp.access)
              /\ (rtfr.pc = "fetchOAuth" => Truthy(resp.refresh))
      THEN "r200" ELSE "r200lacking">>
    \o (IF fin.stored THEN <<"store">> ELSE <<>>)

\* auth.ts refreshTokens lines 351-358 and unifiedLogin line 177: the result
\* goes to the caller over IPC, or to the unifiedLogin awaiting it
RefreshFinished(S, rtfr, below, fin, ev) ==
    IF below # <<>> /\ Top(below).fn = "UL"
    THEN UnifiedLoginAfterRefresh([S EXCEPT !.files = fin.files], Below(below),
                                  AddEv(Top(below), ev), fin)
    ELSE Reply([S EXCEPT !.files = fin.files], below, AddEv(rtfr, ev),
               fin.ok, fin.err)

\* the record of a refreshTokens call that returned success keeps the
\* response it stored
WithResponse(S, resp) ==
    IF S.done.fn = "RT" /\ S.done.ok THEN [S EXCEPT !.done.arg = resp] ELSE S

RefreshAnswered(S, rtfr, below, resp, fin) ==
    WithResponse(RefreshFinished(S, rtfr, below, fin,
                                 RefreshEvents(rtfr, resp, fin)), resp)

\* the refresh endpoint answers: refreshOAuthToken / refreshPATToken resume,
\* refreshTokens returns, and a unifiedLogin awaiting it goes on
RefreshResponse(S, resp) ==
    RefreshAnswered(S, Top(S.st), Below(S.st), resp,
        IF Top(S.st).pc = "fetchOAuth"
        THEN RefreshOAuthTokenResume(S.files, Top(S.st).env, resp)
        ELSE RefreshPATTokenResume(S.files, Top(S.st).env, resp))

\* a variant that reports success whatever the probe said
ProbeResponse_AlwaysOk(S, connected) ==
    LET fr == Top(S.st)
    IN  Reply(S, Below(S.st), AddEv(fr, <<IF connected THEN "p200" ELSE "pFail">>),
              TRUE, "")

\* auth.ts: the getTenant request of a connectToISC* answers and unifiedLogin
\* returns (lines 160-169, 210-220, 275-278, 303-306)
ProbeResponse(S, connected) ==
    LET fr == Top(S.st)
        fresh == fr.pc \in {"probeLogin", "probePat"}
        err == IF connected THEN (IF fresh THEN "Unknown error" ELSE "")
               ELSE "Failed to connect to ISC"
    IN  Reply(S, Below(S.st), AddEv(fr, <<IF connected THEN "p200" ELSE "pFail">>),
              connected, err)

\* oauth.ts OAuthLogin lines 172-184: the exchange-initiation request answers
UuidResponse(S, ok) ==
    LET fr == Top(S.st)
    IN  IF ok THEN [S EXCEPT !.st = Below(S.st) \o <<[fr EXCEPT !.pc = "open"]>>]
        ELSE Reply(S, Below(S.st), fr, FALSE, "OAuth login failed")

\* oauth.ts OAuthLogin lines 187-213: the browser opened (or the dialog was
\* shown instead); the polling loop starts and issues its first request
BrowserOpened(S, opened, nowMs) ==
    LET fr == Top(S.st)
    IN  [S EXCEPT !.st = Below(S.st) \o
            <<[AddEv(fr, <<IF opened THEN "open" ELSE "dialog", "poll">>)
                 EXCEPT !.pc = "poll", !.t0 = nowMs]>>]

\* the trace records a run of failed stores of one polling loop once
PollEv(fr, out) ==
    IF out.stored /\ fr.ev[Len(fr.ev)] # "loginStore"
    THEN AddEv(fr, <<"loginStore">>) ELSE fr

\* auth.ts unifiedLogin lines 253-273: OAuthLogin returned, on the state S
\* after the poll and the call fr
LoginReturned(S, below, fr, out) ==
    CASE out.kind = "sleep" -> [S EXCEPT !.st = below \o <<[fr EXCEPT !.pc = "sleep"]>>]
      [] out.kind = "return" -> Reply(S, below, fr, FALSE, out.err)
      [] OTHER ->
            IF ~GetStoredOAuthTokens(S.files, fr.env).present
            THEN Reply(S, below, fr, FALSE, "No OAuth tokens found")
            ELSE StartProbe(S, below, fr, "probeLogin")

PollAnswered(S, below, fr, out) ==
    LoginReturned([S EXCEPT !.files = out.files], below, PollEv(fr, out), out)

\* oauth.ts OAuthLogin lines 213-252 and auth.ts unifiedLogin lines 253-273
PollResponse(S, resp) ==
    PollAnswered(S, Below(S.st), Top(S.st),
                 OAuthLoginPoll(S.files, Top(S.st).env, resp))

\* a variant whose loop has no timeout
PollSleepEnds_NoTimeout(S, nowMs) ==
    [S EXCEPT !.st = Below(S.st) \o <<[Top(S.st) EXCEPT !.pc = "poll"]>>]

\* oauth.ts OAuthLogin lines 211, 255-258: the sleep ends, the loop condition
PollSleepEnds(S, nowMs) ==
    LET fr == Top(S.st)
    IN  IF nowMs - fr.t0 < PollTimeout
        THEN [S EXCEPT !.st = Below(S.st) \o <<[fr EXCEPT !.pc = "poll"]>>]
        ELSE Reply(S, Below(S.st), fr, FALSE, "Authentication timed out after 5 minutes")

-----------------------------------------------------------------------------
(* ConnectionService (renderer) *)

NoSession == [isValid |-> FALSE, expiry |-> Undef]

\* connection.service validateConnectionImmediately line 53: tokenStatus
VCIFrame(environment, r) ==
    [Frame("VCI", "gotVT", environment) EXCEPT
        !.ret = [NoRet EXCEPT !.set = TRUE, !.ok = TRUE,
                              !.isValid = r.isValid,
                              !.needsRefresh = r.needsRefresh,
                              !.expiry = r.expiry]]

\* connection.service validateConnectionImmediately line 53: the IPC call
InvokeVCI(S, below, environment) ==
    [S EXCEPT !.vt = VtRecord(S.files, environment, NowMs),
              !.st = below \o <<VCIFrame(environment,
                                         ValidateTokens(S.files, environment, NowMs))>>]

\* the continuations that only finish: refreshSession's finally (line 120),
\* and the returns of validateConnectionImmediately, reconnectSession,
\* manualRefreshSession
RECURSIVE Unwind(_, _)
Unwind(S, st) ==
    IF st = <<>> THEN [S EXCEPT !.st = <<>>]
    ELSE IF Top(st).fn = "RS" /\ Top(st).pc \in {"awaitVCI", "awaitHSE"}
         THEN Unwind([S EXCEPT !.flag = FALSE], Below(st))
    ELSE IF Top(st).pc \in {"awaitVCI", "awaitRS"}
         THEN Unwind(S, Below(st))
    ELSE [S EXCEPT !.st = st]

At(fr, pc) == [fr EXCEPT !.pc = pc, !.ret = NoRet]

\* a variant that starts a refresh whether or not one is in progress
EnterRefreshSession_NoGuard(S, below) ==
    InvokeRT([S EXCEPT !.flag = TRUE],
             below \o <<Frame("RS", "awaitRT", CurrentEnvironment)>>,
             CurrentEnvironment)

\* connection.service refreshSession lines 90-105, entered from `below`
EnterRefreshSession(S, below) ==
    IF S.flag THEN Unwind(S, below)
    ELSE InvokeRT([S EXCEPT !.flag = TRUE],
                  below \o <<Frame("RS", "awaitRT", CurrentEnvironment)>>,
                  CurrentEnvironment)

\* connection.service lines 55-78: validateTokens answered
VCIResume(S) ==
    LET fr == Top(S.st)
        S1 == [S EXCEPT !.ss = [isValid |-> fr.ret.isValid, expiry |-> fr.ret.expiry],
                        !.memo = "stale"]
    IN  IF fr.ret.isValid THEN Unwind(S1, Below(S.st))
        ELSE EnterRefreshSession(S1, Below(S.st) \o <<At(fr, "awaitRS")>>)

\* connection.service lines 106-115, 124-138: refreshTokens answered
RSResume(S) ==
    LET fr == Top(S.st)
    IN  IF fr.ret.ok
        THEN InvokeVCI(S, Below(S.st) \o <<At(fr, "awaitVCI")>>, fr.env)
        ELSE InvokeUL([S EXCEPT !.conn = FALSE],
                      Below(S.st) \o <<At(fr, "awaitHSE"),
                                       Frame("RC", "awaitUL", fr.env)>>,
                      fr.env)

\* a variant in which the renderer shows connected whatever unifiedLogin said
LoginResume_AlwaysConnected(S) ==
    IF Top(S.st).ret.ok
    THEN InvokeVCI([S EXCEPT !.conn = TRUE],
                   Below(S.st) \o <<At(Top(S.st), "awaitVCI")>>, Top(S.st).env)
    ELSE Unwind([S EXCEPT !.conn = TRUE], Below(S.st))

\* connection.service lines 139-145 / 164-170: unifiedLogin answered
LoginResume(S) ==
    LET fr == Top(S.st)
    IN  IF fr.ret.ok
        THEN InvokeVCI([S EXCEPT !.conn = TRUE],
                       Below(S.st) \o <<At(fr, "awaitVCI")>>, fr.env)
        ELSE Unwind([S EXCEPT !.conn = FALSE], Below(S.st))

-----------------------------------------------------------------------------
(* Environment management: updateEnvironment, deleteEnvironment,           *)
(* setActiveEnvironment                                                     *)

\* config.ts UpdateEnvironmentRequest; deleteEnvironment and
\* setActiveEnvironment take the environmentName only
Request(environmentName, tenantUrl, baseUrl, authType, clientId, clientSecret) ==
    [environmentName |-> environmentName, tenantUrl |-> tenantUrl,
     baseUrl |-> baseUrl, authType |-> authType,
     clientId |-> clientId, clientSecret |-> clientSecret]

NameOnly(environmentName) ==
    Request(environmentName, "", "", "oauth", NoVal, NoVal)

\* what a registry call returns, and the registry and the secrets it leaves
RegResult(ok, err, cfg, f, ev) ==
    [ok |-> ok, err |-> err, config |-> cfg, files |-> f, ev |-> ev]

\* config.ts updateEnvironment lines 166-170: a new config
FreshConfig == [readable |-> TRUE, authtype |-> "oauth",
                activeenvironment |-> "", environments |-> <<>>]

\* a variant that adds an entry at every call
Upsert_Append(envs, entry) == Append(envs, entry)

\* config.environments[name] = entry: a known key keeps its place in the
\* iteration order, a new key goes last; the name __proto__ runs the
\* inherited setter and adds no key
Upsert(envs, entry) ==
    IF entry.name = "__proto__" THEN envs
    ELSE IF \E i \in DOMAIN envs : envs[i].name = entry.name
    THEN [i \in DOMAIN envs |-> IF envs[i].name = entry.name THEN entry ELSE envs[i]]
    ELSE Append(envs, entry)

\* delete config.environments[name]
RemoveEnv(envs, name) == SelectSeq(envs, LAMBDA e : e.name # name)

\* config.ts updateEnvironment lines 175-184
UpdatedConfig(cfg, req) ==
    [cfg EXCEPT !.environments =
                    Upsert(@, [name |-> req.environmentName,
                               tenanturl |-> req.tenantUrl,
                               baseurl |-> req.baseUrl]),
                !.authtype = req.authType,
                !.activeenvironment = req.environmentName]

\* config.ts updateEnvironment lines 193-198
SaveCredentials(f, req) ==
    IF Truthy(req.clientId) /\ Truthy(req.clientSecret)
    THEN WriteAll(f, req.environmentName,
                  << <<KPatId, Plain(req.clientId)>>,
                     <<KPatSecret, Plain(req.clientSecret)>> >>)
    ELSE [throw |-> FALSE, files |-> f]

\* config.ts updateEnvironment lines 200-210: setConfig, or the catch
UpdateEnvironmentWrite(cfg, newConfig, w, writable) ==
    CASE w.throw -> RegResult(FALSE, "Encryption not available", cfg, w.files, <<>>)
      [] ~writable -> RegResult(FALSE, "write error", cfg, w.files, <<>>)
      [] OTHER -> RegResult(TRUE, "", newConfig, w.files, <<>>)

\* config.ts updateEnvironment, on the registry cfg and the secrets f;
\* `writable` says whether writeFileSync of the registry file succeeds
UpdateEnvironment(cfg, f, req, writable) ==
    UpdateEnvironmentWrite(cfg,
        UpdatedConfig(IF cfg.readable THEN cfg ELSE FreshConfig, req),
        SaveCredentials(f, req), writable)

\* the order in which deleteEnvironment removes the secrets, lines 237-246
PurgeOrder == <<KPatId, KPatSecret, KPatAccess, KPatExpiry,
                KOAccess, KOExpiry, KORefresh, KORefreshExpiry>>

\* the files deleteSecureValue finds and unlinks, in order
RECURSIVE Unlinked(_, _, _)
Unlinked(f, environment, keys) ==
    IF keys = <<>> THEN <<>>
    ELSE (IF f[BuildSecretFilePath(Head(keys), environment)].exists
          THEN <<Head(keys)>> ELSE <<>>)
         \o Unlinked(DeleteSecureValue(f, Head(keys), environment),
                     environment, Tail(keys))

RECURSIVE DeleteAll(_, _, _)
DeleteAll(f, environment, keys) ==
    IF keys = <<>> THEN f
    ELSE DeleteAll(DeleteSecureValue(f, Head(keys), environment),
                   environment, Tail(keys))

\* a variant that purges only the secrets of the global auth mode
PurgeSecrets_ActiveModeOnly(f, environmentName) ==
    DeleteAll(f, environmentName,
              IF GetGlobalAuthType = "oauth" THEN SubSeq(PurgeOrder, 5, 8)
              ELSE SubSeq(PurgeOrder, 1, 4))

\* config.ts deleteEnvironment lines 236-246
PurgeSecrets(f, environmentName) == DeleteAll(f, environmentName, PurgeOrder)

\* a variant that clears the active pointer whenever the active one is deleted
ActiveAfterDelete_Cleared(cfg, environmentName, remainingEnvs) ==
    IF cfg.activeenvironment = environmentName THEN ""
    ELSE cfg.activeenvironment

\* config.ts deleteEnvironment lines 231-234, on the remaining environments
ActiveAfterDelete(cfg, environmentName, remainingEnvs) ==
    IF cfg.activeenvironment = environmentName
    THEN (IF Len(remainingEnvs) > 0 THEN remainingEnvs[1].name ELSE "")
    ELSE cfg.activeenvironment

\* config.ts deleteEnvironment lines 227-234
ConfigWithout(cfg, environmentName, remainingEnvs) ==
    [cfg EXCEPT !.environments = remainingEnvs,
                !.activeenvironment = ActiveAfterDelete(cfg, environmentName,
                                                        remainingEnvs)]

\* config.ts deleteEnvironment lines 236-258: the purge, setConfig, or the catch
DeleteEnvironmentWrite(cfg, newConfig, f, ev, writable) ==
    IF ~writable THEN RegResult(FALSE, "write error", cfg, f, ev)
    ELSE RegResult(TRUE, "", newConfig, f, ev)

\* config.ts deleteEnvironment
DeleteEnvironment(cfg, f, environmentName, writable) ==
    CASE ~cfg.readable -> RegResult(FALSE, "read error", cfg, f, <<>>)
      [] ~EntryTruthy(cfg, environmentName) ->
            RegResult(FALSE, "does not exist", cfg, f, <<>>)
      [] OTHER ->
            DeleteEnvironmentWrite(cfg,
                ConfigWithout(cfg, environmentName,
                              RemoveEnv(cfg.environments, environmentName)),
                PurgeSecrets(f, environmentName),
                Unlinked(f, environmentName, PurgeOrder), writable)

\* config.ts setActiveEnvironment
SetActiveEnvironment(cfg, f, environmentName, writable) ==
    CASE ~cfg.readable -> RegResult(FALSE, "read error", cfg, f, <<>>)
      [] ~EntryTruthy(cfg, environmentName) ->
            RegResult(FALSE, "does not exist", cfg, f, <<>>)
      [] ~writable -> RegResult(FALSE, "write error", cfg, f, <<>>)
      [] OTHER -> RegResult(TRUE, "", [cfg EXCEPT !.activeenvironment =
                                                      environmentName], f, <<>>)

-----------------------------------------------------------------------------
(* Initial states: a registry and a secret store the program can have written *)

EmptyFiles == [n \in FileNames |-> NoFile]

Registry(authtype, tenanturl) ==
    [readable |-> TRUE, authtype |-> authtype, activeenvironment |-> "prod",
     environments |-> <<[name |-> "prod", tenanturl |-> tenanturl,
                         baseurl |-> "https://prod.api"]>>]

InitConfigs ==
    {NoConfig} \cup {Registry(a, u) : a \in {"oauth", "pat"},
                                      u \in {"", "https://prod.tenant"}}

\* what storeOAuthTokens leaves after a delegated login
OAuthFiles(a, r) ==
    StoreOAuthTokens(EmptyFiles, "prod", Jwt(a), a * 1000, Jwt(r), r * 1000).files

\* what updateEnvironment (client id and secret) and storePATTokens leave
CredFiles ==
    WriteAll(EmptyFiles, "prod", << <<KPatId, Plain(Cred(1))>>,
                                    <<KPatSecret, Plain(Cred(2))>> >>).files
PatFiles(a) == StorePATTokens(CredFiles, "prod", Jwt(a), a * 1000).files

InitFiles(cfg) ==
    IF ~cfg.readable THEN {EmptyFiles}
    ELSE IF cfg.authtype = "oauth"
    THEN {EmptyFiles} \cup {OAuthFiles(a, r) : a \in ExpSecs, r \in ExpSecs}
    ELSE {EmptyFiles, CredFiles} \cup {PatFiles(a) : a \in ExpSecs}

Init ==
    /\ now = 0
    /\ encAvail = TRUE
    /\ config \in InitConfigs
    /\ files \in InitFiles(config)
    /\ apiConfig = "none"
    /\ stack = [t \in Tasks |-> <<>>]
    /\ done = [t \in Tasks |-> NoDone]
    /\ vt = NoVt
    /\ conn = FALSE
    /\ sessionStatus = NoSession
    /\ isSessionRefreshing = FALSE
    /\ display = "Checking..."
    /\ tueMemo = "stale"

-----------------------------------------------------------------------------
(* Actions *)

Idle(t) == stack[t] = <<>>
Waiting(t, fn, pcs) ==
    /\ stack[t] # <<>>
    /\ Top(stack[t]).fn = fn
    /\ Top(stack[t]).pc \in pcs

\* the view layer calls validateTokens over IPC (main.ts 'validate-tokens')
CallValidateTokens(t, environment) ==
    /\ Idle(t)
    /\ vt' = VtRecord(files, environment, NowMs)
    /\ done' = [u \in Tasks |-> NoDone]
    /\ UNCHANGED <<now, config, files, encAvail, apiConfig, stack, conn,
                   sessionStatus, isSessionRefreshing, display, tueMemo>>

\* the view layer calls refreshTokens over IPC (main.ts 'refresh-tokens')
CallRefreshTokens(t, environment) ==
    /\ Idle(t)
    /\ Apply(t, InvokeRT(Sigma(t), <<>>, environment))

\* the view layer calls unifiedLogin over IPC (main.ts 'unified-login')
CallUnifiedLogin(t, environment) ==
    /\ Idle(t)
    /\ Apply(t, InvokeUL(Sigma(t), <<>>, environment))

\* ConnectionService.validateConnectionImmediately(environmentName)
CallValidateConnection(t) ==
    /\ Idle(t)
    /\ Apply(t, InvokeVCI(Sigma(t), <<>>, CurrentEnvironment))

\* ConnectionService.refreshSession()
CallRefreshSession(t) ==
    /\ Idle(t)
    /\ ~isSessionRefreshing
    /\ Apply(t, EnterRefreshSession(Sigma(t), <<>>))

\* ConnectionService.manualRefreshSession()
CallManualRefresh(t) ==
    /\ Idle(t)
    /\ Apply(t, InvokeUL(Sigma(t), <<Frame("MRS", "awaitUL", CurrentEnvironment)>>,
                         CurrentEnvironment))

\* the refresh endpoint / the token endpoint answers, with a response out of
\* pairs / tokens
NetRefresh(t, pairs, tokens) ==
    \/ /\ Waiting(t, "RT", {"fetchOAuth"})
       /\ \E resp \in pairs : Apply(t, RefreshResponse(Sigma(t), resp))
    \/ /\ Waiting(t, "RT", {"fetchPAT"})
       /\ \E resp \in tokens : Apply(t, RefreshResponse(Sigma(t), resp))

\* the tenant-metadata probe answers: HTTP 200, or anything else
NetProbe(t) ==
    /\ Waiting(t, "UL", {"probeValid", "probeRefreshed", "probeLogin", "probePat"})
    /\ \E connected \in BOOLEAN : Apply(t, ProbeResponse(Sigma(t), connected))

NetUuid(t) ==
    /\ Waiting(t, "UL", {"uuid"})
    /\ \E ok \in BOOLEAN : Apply(t, UuidResponse(Sigma(t), ok))

OpenBrowser(t) ==
    /\ Waiting(t, "UL", {"open"})
    /\ \E opened \in BOOLEAN : Apply(t, BrowserOpened(Sigma(t), opened, NowMs))

\* the polling endpoint answers, with a response out of polls
NetPoll(t, polls) ==
    /\ Waiting(t, "UL", {"poll"})
    /\ \E resp \in polls : Apply(t, PollResponse(Sigma(t), resp))

PollSleep(t) ==
    /\ Waiting(t, "UL", {"sleep"})
    /\ Apply(t, PollSleepEnds(Sigma(t), NowMs))

\* an IPC answer reaches the renderer and the awaiting method goes on
RendererResume(t) ==
    \/ /\ Waiting(t, "VCI", {"gotVT"})
       /\ Apply(t, VCIResume(Sigma(t)))
    \/ /\ Waiting(t, "RS", {"awaitRT"})
       /\ Top(stack[t]).ret.set
       /\ Apply(t, RSResume(Sigma(t)))
    \/ /\ Waiting(t, "RC", {"awaitUL"})
       /\ Top(stack[t]).ret.set
       /\ Apply(t, LoginResume(Sigma(t)))
    \/ /\ Waiting(t, "MRS", {"awaitUL"})
       /\ Top(stack[t]).ret.set
       /\ Apply(t, LoginResume(Sigma(t)))

Tick ==
    /\ now < MaxTick
    /\ now' = now + 1
    /\ vt' = NoVt
    /\ done' = [u \in Tasks |-> NoDone]
    /\ UNCHANGED <<config, files, encAvail, apiConfig, stack, conn,
                   sessionStatus, isSessionRefreshing, display, tueMemo>>

\* app.component timeUntilExpiry: Math.max(0, expiry - now) <= 0, recomputed
\* only after sessionStatus was set
TimeUntilExpiry(nowMs) ==
    IF tueMemo # "stale" THEN tueMemo
    ELSE IF sessionStatus.expiry = Undef THEN "zero"
    ELSE IF sessionStatus.expiry = NaN THEN "pos"
    ELSE IF sessionStatus.expiry - nowMs <= 0 THEN "zero" ELSE "pos"

\* connection.service sessionExpiryTime || 'Expired'
SessionExpiryTime(nowMs) ==
    IF sessionStatus.expiry = Undef THEN "Expired"
    ELSE IF sessionStatus.expiry # NaN /\ sessionStatus.expiry - nowMs <= 0
    THEN "Expired" ELSE "Time"

\* app.component setupExpiryTimer: the body of the 1-second interval
TimerFire ==
    /\ tueMemo' = TimeUntilExpiry(NowMs)
    /\ display' = IF tueMemo' = "zero" THEN "Expired" ELSE SessionExpiryTime(NowMs)
    /\ vt' = NoVt
    /\ done' = [u \in Tasks |-> NoDone]
    /\ UNCHANGED <<now, config, files, encAvail, apiConfig, stack, conn,
                   sessionStatus, isSessionRefreshing>>

\* app.component disconnectFromISC with auth.ts disconnectFromISC
Disconnect ==
    /\ apiConfig' = "none"
    /\ conn' = FALSE
    /\ vt' = NoVt
    /\ done' = [u \in Tasks |-> NoDone]
    /\ UNCHANGED <<now, config, files, encAvail, stack, sessionStatus,
                   isSessionRefreshing, display, tueMemo>>

\* the server issues well-formed tokens, or leaves a token out
IssuedTokens == {Jwt(e) : e \in ExpSecs}
IssuedPairs ==
    {resp \in PairResponses :
        /\ resp.access \in IssuedTokens \cup {NoVal}
        /\ resp.refresh \in IssuedTokens \cup {NoVal}}
IssuedAccess ==
    {resp \in TokenResponses : resp.access \in IssuedTokens \cup {NoVal}}

-----------------------------------------------------------------------------
(* The main process serving one IPC call at a time, against servers that   *)
(* may answer anything                                                      *)

Main == "t1"

Next ==
    \/ \E e \in EnvNames : CallValidateTokens(Main, e)
    \/ \E e \in EnvNames : CallRefreshTokens(Main, e)
    \/ \E e \in EnvNames : CallUnifiedLogin(Main, e)
    \/ NetRefresh(Main, PairResponses, TokenResponses)
    \/ NetProbe(Main)
    \/ NetUuid(Main)
    \/ OpenBrowser(Main)
    \/ NetPoll(Main, PollResponses)
    \/ PollSleep(Main)
    \/ Tick

Spec == Init /\ [][Next]_vars

-----------------------------------------------------------------------------
(* The renderer's ConnectionService with two concurrent callers within one *)
(* tick of the clock: the automatic one (route guard, background           *)
(* validation) and the operator's                                          *)

Auto == "t1"
Operator == "t2"

NextSession ==
    \/ CallValidateConnection(Auto)
    \/ \E t \in Tasks : CallRefreshSession(t)
    \/ CallManualRefresh(Operator)
    \/ \E t \in Tasks : NetRefresh(t, IssuedPairs, IssuedAccess)
    \/ \E t \in Tasks : NetProbe(t)
    \/ \E t \in Tasks : NetUuid(t)
    \/ \E t \in Tasks : OpenBrowser(t)
    \/ \E t \in Tasks : NetPoll(t, IssuedPairs)
    \/ \E t \in Tasks : PollSleep(t)
    \/ \E t \in Tasks : RendererResume(t)

SpecSession == Init /\ [][NextSession]_vars

-----------------------------------------------------------------------------
(* The view layer: one ConnectionService caller and the expiry timer        *)

NextView ==
    \/ CallValidateConnection(Main)
    \/ CallManualRefresh(Main)
    \/ NetRefresh(Main, IssuedPairs, IssuedAccess)
    \/ NetProbe(Main)
    \/ NetUuid(Main)
    \/ OpenBrowser(Main)
    \/ NetPoll(Main, IssuedPairs)
    \/ PollSleep(Main)
    \/ RendererResume(Main)
    \/ Tick
    \/ TimerFire

SpecView == Init /\ [][NextView]_vars

\* what runs without the operator once no call is pending: the clock and
\* the 1-second interval timer
SpecViewFair == SpecView /\ WF_vars(Tick) /\ WF_vars(TimerFire)

-----------------------------------------------------------------------------
(* The main process against a registry and a secret store that something   *)
(* else has damaged: the registry unreadable while secrets remain, stored   *)
(* tokens that do not parse or carry no exp, encryption unavailable         *)

\* the secrets in `values` (key :> value) of environment prod, written raw
RawFiles(values) ==
    [n \in FileNames |->
        IF \E k \in DOMAIN values : n = BuildSecretFilePath(k, "prod")
        THEN EncryptString(values[CHOOSE k \in DOMAIN values :
                                      n = BuildSecretFilePath(k, "prod")])
        ELSE NoFile]

RawOAuthFiles(a, r) ==
    RawFiles((KOAccess :> a) @@ (KOExpiry :> Iso(0))
             @@ (KORefresh :> r) @@ (KORefreshExpiry :> Iso(0)))

RawPatFiles(a) ==
    RawFiles((KPatId :> Cred(1)) @@ (KPatSecret :> Cred(2))
             @@ (KPatAccess :> a) @@ (KPatExpiry :> Iso(0)))

DamagedFiles ==
    {EmptyFiles}
    \cup {RawOAuthFiles(a, r) : a \in RespTokens, r \in RespTokens}
    \cup {RawPatFiles(a) : a \in RespTokens \cup {NoVal}}

InitDamaged ==
    /\ now = 0
    /\ encAvail \in BOOLEAN
    /\ config \in InitConfigs
    /\ files \in DamagedFiles
    /\ apiConfig = "none"
    /\ stack = [t \in Tasks |-> <<>>]
    /\ done = [t \in Tasks |-> NoDone]
    /\ vt = NoVt
    /\ conn = FALSE
    /\ sessionStatus = NoSession
    /\ isSessionRefreshing = FALSE
    /\ display = "Checking..."
    /\ tueMemo = "stale"

SpecDamaged == InitDamaged /\ [][Next]_vars

-----------------------------------------------------------------------------
(* The environment management calls of the view layer, one at a time       *)

\* a call of config.ts fn with request req returned r; `was` keeps the
\* registry the call found
RegistryCall(t, fn, req, r) ==
    /\ Idle(t)
    /\ config' = r.config
    /\ files' = r.files
    /\ done' = [u \in Tasks |->
                  IF u = t
                  THEN [fn |-> fn, env |-> req.environmentName, ok |-> r.ok,
                        err |-> r.err, ev |-> r.ev, pre |-> NoPre, arg |-> req,
                        was |-> config]
                  ELSE NoDone]
    /\ vt' = NoVt
    /\ UNCHANGED <<now, encAvail, apiConfig, stack, conn, sessionStatus,
                   isSessionRefreshing, display, tueMemo>>

\* main.ts 'update-environment'
CallUpdateEnvironment(t, req, writable) ==
    RegistryCall(t, "updateEnvironment", req,
                 UpdateEnvironment(config, files, req, writable))

\* main.ts 'delete-environment'
CallDeleteEnvironment(t, environmentName, writable) ==
    RegistryCall(t, "deleteEnvironment", NameOnly(environmentName),
                 DeleteEnvironment(config, files, environmentName, writable))

\* main.ts 'set-active-environment'
CallSetActiveEnvironment(t, environmentName, writable) ==
    RegistryCall(t, "setActiveEnvironment", NameOnly(environmentName),
                 SetActiveEnvironment(config, files, environmentName, writable))

TenantUrls == {"https://alt.tenant"}
BaseUrls == {"https://alt.api"}

UpdateRequests ==
    {Request(n, u, b, a, i, s) :
        n \in RegistryNames, u \in TenantUrls, b \in BaseUrls, a \in {"oauth", "pat"},
        i \in {NoVal, Cred(1)}, s \in {NoVal, Cred(2)}}

\* both token sets of prod stored side by side
BothFiles(a) ==
    RawFiles((KPatId :> Cred(1)) @@ (KPatSecret :> Cred(2))
             @@ (KPatAccess :> a) @@ (KPatExpiry :> Iso(0))
             @@ (KOAccess :> a) @@ (KOExpiry :> Iso(0))
             @@ (KORefresh :> a) @@ (KORefreshExpiry :> Iso(0)))

InitRegistry ==
    /\ now = 0
    /\ encAvail \in BOOLEAN
    /\ config \in {NoConfig} \cup {Registry(a, "https://prod.tenant") :
                                        a \in {"oauth", "pat"}}
    /\ files \in {EmptyFiles, BothFiles(Jwt(TickSec))}
    /\ apiConfig = "none"
    /\ stack = [t \in Tasks |-> <<>>]
    /\ done = [t \in Tasks |-> NoDone]
    /\ vt = NoVt
    /\ conn = FALSE
    /\ sessionStatus = NoSession
    /\ isSessionRefreshing = FALSE
    /\ display = "Checking..."
    /\ tueMemo = "stale"

NextRegistry ==
    \/ \E req \in UpdateRequests, writable \in BOOLEAN :
            CallUpdateEnvironment(Main, req, writable)
    \/ \E e \in RegistryNames, writable \in BOOLEAN :
            CallDeleteEnvironment(Main, e, writable)
    \/ \E e \in RegistryNames, writable \in BOOLEAN :
            CallSetActiveEnvironment(Main, e, writable)

SpecRegistry == InitRegistry /\ [][NextRegistry]_vars

\* a variant that clears the token set of the mode switched away from
SetGlobalAuthType_PurgeOther(cfg, f, authType, writable) ==
    CASE ~cfg.readable -> RegResult(FALSE, "read error", cfg, f, <<>>)
      [] ~writable -> RegResult(FALSE, "write error", cfg, f, <<>>)
      [] OTHER -> RegResult(TRUE, "", [cfg EXCEPT !.authtype = authType],
                            DeleteAll(f, cfg.activeenvironment,
                                      IF authType = "oauth"
                                      THEN SubSeq(PurgeOrder, 3, 4)
                                      ELSE SubSeq(PurgeOrder, 5, 8)), <<>>)

\* auth.ts setGlobalAuthType, on the registry cfg
SetGlobalAuthType(cfg, f, authType, writable) ==
    CASE ~cfg.readable -> RegResult(FALSE, "read error", cfg, f, <<>>)
      [] ~writable -> RegResult(FALSE, "write error", cfg, f, <<>>)
      [] OTHER -> RegResult(TRUE, "", [cfg EXCEPT !.authtype = authType], f, <<>>)

\* main.ts 'set-global-auth-type'
CallSetGlobalAuthType(t, authType, writable) ==
    RegistryCall(t, "setGlobalAuthType", Request("", "", "", authType, NoVal, NoVal),
                 SetGlobalAuthType(config, files, authType, writable))

\* what a delegated login leaves next to a service-credential token set
CoexistingFiles(a) ==
    StoreOAuthTokens(PatFiles(a), "prod", Jwt(a), a * 1000, Jwt(a), a * 1000).files

\* both token sets of prod are stored when the program starts
InitModes ==
    /\ now = 0
    /\ encAvail = TRUE
    /\ config \in {Registry(a, "https://prod.tenant") : a \in {"oauth", "pat"}}
    /\ files = CoexistingFiles(TickSec)
    /\ apiConfig = "none"
    /\ stack = [t \in Tasks |-> <<>>]
    /\ done = [t \in Tasks |-> NoDone]
    /\ vt = NoVt
    /\ conn = FALSE
    /\ sessionStatus = NoSession
    /\ isSessionRefreshing = FALSE
    /\ display = "Checking..."
    /\ tueMemo = "stale"

\* validation, refresh and login, the auth mode switch and deleteEnvironment
NextModes ==
    \/ Next
    \/ \E a \in {"oauth", "pat"}, writable \in BOOLEAN :
            CallSetGlobalAuthType(Main, a, writable)
    \/ \E e \in EnvNames, writable \in BOOLEAN :
            CallDeleteEnvironment(Main, e, writable)

SpecModes == InitModes /\ [][NextModes]_vars

-----------------------------------------------------------------------------
(* The access-token status check                                           *)

\* an AccessTokenStatus, or the request that has to be awaited first
AStatus(isValid, needsRefresh) ==
    [await |-> FALSE, isValid |-> isValid, needsRefresh |-> needsRefresh]
AwaitTest == [await |-> TRUE, isValid |-> FALSE, needsRefresh |-> FALSE]

\* auth.ts testAccessToken lines 643-695, on the stored set and the expiry
\* check x of its access token: up to the getTenant request
TestAccessTokenStart(storedTokens, x, environment) ==
    CASE ~storedTokens.present -> AStatus(FALSE, FALSE)
      [] x.throw -> AStatus(FALSE, FALSE)
      [] x.expired -> AStatus(FALSE, TRUE)
      [] GetConfig.throw -> AStatus(FALSE, TRUE)
      [] ~EntryTruthy(config, environment) -> AStatus(FALSE, FALSE)
      [] OTHER -> AwaitTest

\* auth.ts checkAccessTokenStatus lines 548-569, on the stored set and the
\* parsed claims p of its access token
CheckAccessTokenStatusOn(storedTokens, p, environment, nowMs) ==
    CASE ~storedTokens.present -> AStatus(FALSE, FALSE)
      [] p.throw -> AStatus(FALSE, FALSE)
      [] DateLt(ExpToMs(p.exp), nowMs) -> AStatus(FALSE, TRUE)
      [] OTHER -> TestAccessTokenStart(storedTokens,
                      CheckTokenExpired(storedTokens.accessToken, nowMs),
                      environment)

\* auth.ts checkAccessTokenStatus lines 527-546: the stored set of the mode
StoredOfMode(f, environment) ==
    IF GetGlobalAuthType = "oauth" THEN GetStoredOAuthTokens(f, environment)
    ELSE GetStoredPATTokens(f, environment)

CheckAccessTokenStatusSet(storedTokens, environment, nowMs) ==
    CheckAccessTokenStatusOn(storedTokens, ParseJwt(storedTokens.accessToken),
                             environment, nowMs)

\* auth.ts checkAccessTokenStatus, up to the getTenant request
CheckAccessTokenStatusStart(f, environment, nowMs) ==
    CheckAccessTokenStatusSet(StoredOfMode(f, environment), environment, nowMs)

ProbeAnswers == {"200", "status", "error"}

\* a variant that takes every answered request for a valid token
TestAccessTokenResume_AnyAnswer(answer) ==
    IF answer = "error" THEN AStatus(FALSE, TRUE) ELSE AStatus(TRUE, FALSE)

\* auth.ts testAccessToken lines 697-718: the getTenant request answered
TestAccessTokenResume(answer) ==
    IF answer = "200" THEN AStatus(TRUE, FALSE) ELSE AStatus(FALSE, TRUE)

\* checkAccessTokenStatus returns status a
StatusReply(S, fr, a) ==
    Reply(S, <<>>, [fr EXCEPT !.pre = WithStatus(@, a)], a.isValid, "")

StatusBegin(S, fr, a) ==
    IF a.await THEN [S EXCEPT !.st = <<AddEv(fr, <<"probe">>)>>]
    ELSE StatusReply(S, fr, a)

\* auth.ts checkAccessTokenStatus invoked over IPC, up to its first await
InvokeCATS(S, environment) ==
    StatusBegin(S, [Frame("CATS", "test", environment) EXCEPT
                        !.pre = Facts(S.files, environment, NowMs)],
                CheckAccessTokenStatusStart(S.files, environment, NowMs))

TestEvent(answer) ==
    CASE answer = "200" -> "p200" [] answer = "status" -> "pFail" [] OTHER -> "pErr"

\* the getTenant request of testAccessToken is answered
TestAnswered(S, answer) ==
    StatusReply(S, AddEv(Top(S.st), <<TestEvent(answer)>>),
                TestAccessTokenResume(answer))

\* main.ts 'check-access-token-status'
CallCheckAccessTokenStatus(t, environment) ==
    /\ Idle(t)
    /\ Apply(t, InvokeCATS(Sigma(t), environment))

NetTest(t) ==
    /\ Waiting(t, "CATS", {"test"})
    /\ \E answer \in ProbeAnswers : Apply(t, TestAnswered(Sigma(t), answer))

NextStatus ==
    \/ \E e \in EnvNames : CallCheckAccessTokenStatus(Main, e)
    \/ NetTest(Main)
    \/ Tick

SpecStatus == Init /\ [][NextStatus]_vars

-----------------------------------------------------------------------------
(* The Secret Store on its own: setSecureValue, getSecureValue and        *)
(* deleteSecureValue applied to bounded keys, names and values             *)

SecretKeys == {KPatId, KOAccess}
SecretValues == {NoVal, Cred(1), Cred(2)}

\* the arguments of a Secret Store call: `value` is the value written or
\* the value returned, `old` the value the pair read as before the call
SecretArg(key, environment, value, old) ==
    [key |-> key, environment |-> environment, value |-> value, old |-> old]

SecretCall(t, fn, arg, ok, f) ==
    /\ Idle(t)
    /\ files' = f
    /\ done' = [u \in Tasks |->
                  IF u = t
                  THEN [fn |-> fn, env |-> arg.environment, ok |-> ok,
                        err |-> IF ok THEN "" ELSE "Encryption not available",
                        ev |-> <<>>, pre |-> NoPre, arg |-> arg,
                        was |-> NoConfig]
                  ELSE NoDone]
    /\ vt' = NoVt
    /\ UNCHANGED <<now, config, encAvail, apiConfig, stack, conn, sessionStatus,
                   isSessionRefreshing, display, tueMemo>>

SetSecureValueDone(t, key, environment, value, r) ==
    SecretCall(t, "setSecureValue",
               SecretArg(key, environment, value,
                         GetSecureValue(files, key, environment)),
               ~r.throw, r.files)

\* config.ts setSecureValue(key, environment, value)
CallSetSecureValue(t, key, environment, value) ==
    SetSecureValueDone(t, key, environment, value,
                       SetSecureValue(files, key, environment, value))

GetSecureValueDone(t, key, environment, r) ==
    SecretCall(t, "getSecureValue",
               SecretArg(key, environment, r.val, r.val), ~r.throw, files)

\* config.ts getSecureValue(key, environment)
CallGetSecureValue(t, key, environment) ==
    GetSecureValueDone(t, key, environment,
                       GetSecureValueResult(files, key, environment))

\* config.ts deleteSecureValue(key, environment)
CallDeleteSecureValue(t, key, environment) ==
    SecretCall(t, "deleteSecureValue",
               SecretArg(key, environment, NoVal,
                         GetSecureValue(files, key, environment)),
               TRUE, DeleteSecureValue(files, key, environment))

InitSecrets ==
    /\ now = 0
    /\ encAvail \in BOOLEAN
    /\ config = NoConfig
    /\ files = EmptyFiles
    /\ apiConfig = "none"
    /\ stack = [t \in Tasks |-> <<>>]
    /\ done = [t \in Tasks |-> NoDone]
    /\ vt = NoVt
    /\ conn = FALSE
    /\ sessionStatus = NoSession
    /\ isSessionRefreshing = FALSE
    /\ display = "Checking..."
    /\ tueMemo = "stale"

NextSecrets ==
    \/ \E k \in SecretKeys, e \in EnvNames, v \in SecretValues :
            CallSetSecureValue(Main, k, e, v)
    \/ \E k \in SecretKeys, e \in EnvNames : CallGetSecureValue(Main, k, e)
    \/ \E k \in SecretKeys, e \in EnvNames : CallDeleteSecureValue(Main, k, e)

SpecSecrets == InitSecrets /\ [][NextSecrets]_vars

\* two names the user can give to two environments
TwinNames == {"prod-eu", "prod_eu"}

\* the Secret Store called for environments of these two names
NextTwins ==
    \/ \E k \in SecretKeys, e \in TwinNames, v \in SecretValues :
            CallSetSecureValue(Main, k, e, v)
    \/ \E k \in SecretKeys, e \in TwinNames : CallGetSecureValue(Main, k, e)
    \/ \E k \in SecretKeys, e \in TwinNames : CallDeleteSecureValue(Main, k, e)

SpecTwins == InitSecrets /\ [][NextTwins]_vars

-----------------------------------------------------------------------------
(* One delegated login on the clock of its polling loop: in this            *)
(* specification the clock counts poll intervals of 2 seconds               *)

PollInterval == 2000
MaxIntervals == 152     \* the clock of the polling loop runs over 0..MaxIntervals + 1

IntervalMs(n) == n * PollInterval

\* Apply, one poll interval later
ApplyLater(t, S) ==
    /\ stack' = [stack EXCEPT ![t] = S.st]
    /\ files' = S.files
    /\ config' = S.config
    /\ apiConfig' = S.apiConfig
    /\ vt' = S.vt
    /\ done' = [u \in Tasks |-> IF u = t THEN S.done ELSE NoDone]
    /\ conn' = S.conn
    /\ isSessionRefreshing' = S.flag
    /\ sessionStatus' = S.ss
    /\ tueMemo' = S.memo
    /\ now' = now + 1
    /\ UNCHANGED <<encAvail, display>>

\* the trace records every request of the polling loop
PollIssued(S) ==
    IF S.st # <<>> /\ Top(S.st).fn = "UL" /\ Top(S.st).pc = "poll"
    THEN [S EXCEPT !.st = Below(S.st) \o <<AddEv(Top(S.st), <<"poll">>)>>]
    ELSE S

\* oauth.ts OAuthLogin line 209: startTime = Date.now()
OpenBrowserAt(t) ==
    /\ Waiting(t, "UL", {"open"})
    /\ \E opened \in BOOLEAN :
          Apply(t, BrowserOpened(Sigma(t), opened, IntervalMs(now)))

\* oauth.ts OAuthLogin lines 255, 211: setTimeout(resolve, pollInterval)
\* fires after one interval and the loop condition is evaluated
PollSleepInterval(t) ==
    /\ Waiting(t, "UL", {"sleep"})
    /\ now <= MaxIntervals
    /\ ApplyLater(t, PollIssued(PollSleepEnds(Sigma(t), IntervalMs(now + 1))))

\* a poll request takes another interval to be answered
PollSlow(t) ==
    /\ Waiting(t, "UL", {"poll"})
    /\ now < MaxIntervals
    /\ now' = now + 1
    /\ UNCHANGED <<config, files, encAvail, apiConfig, stack, done, vt, conn,
                   sessionStatus, isSessionRefreshing, display, tueMemo>>

\* the answers of the polling endpoint that leave the stored secrets alone
\* unless the login succeeds
LoopResponses ==
    {r \in PollResponses : r.access \in {NoVal, Jwt(TickSec)}
                            /\ r.refresh \in {NoVal, Jwt(TickSec)}}

InitPolling ==
    /\ now = 0
    /\ encAvail = TRUE
    /\ config = Registry("oauth", "https://prod.tenant")
    /\ files = EmptyFiles
    /\ apiConfig = "none"
    /\ stack = [t \in Tasks |-> <<>>]
    /\ done = [t \in Tasks |-> NoDone]
    /\ vt = NoVt
    /\ conn = FALSE
    /\ sessionStatus = NoSession
    /\ isSessionRefreshing = FALSE
    /\ display = "Checking..."
    /\ tueMemo = "stale"

\* one login attempt, started at time 0
CallLoginOnce(t) ==
    /\ now = 0
    /\ done[t].fn = "none"
    /\ CallUnifiedLogin(t, "prod")

NextPolling ==
    \/ CallLoginOnce(Main)
    \/ NetUuid(Main)
    \/ OpenBrowserAt(Main)
    \/ NetPoll(Main, LoopResponses)
    \/ PollSlow(Main)
    \/ PollSleepInterval(Main)
    \/ NetProbe(Main)

SpecPolling == InitPolling /\ [][NextPolling]_vars

\* every request is answered and every timer fires
SpecPollingFair ==
    /\ SpecPolling
    /\ WF_vars(NetUuid(Main))
    /\ WF_vars(OpenBrowserAt(Main))
    /\ WF_vars(NetPoll(Main, LoopResponses))
    /\ WF_vars(PollSleepInterval(Main))
    /\ WF_vars(NetProbe(Main))

-----------------------------------------------------------------------------
(* The registry calls and unifiedLogin in any order, from an empty registry *)

\* the environment names the operator types
DeskNames == EnvNames \cup {"__proto__"}

\* an environment is saved with both credentials or with none
DeskRequests ==
    {Request(n, u, b, a, c[1], c[2]) :
        n \in DeskNames, u \in TenantUrls, b \in BaseUrls, a \in {"oauth", "pat"},
        c \in {<<NoVal, NoVal>>, <<Cred(1), Cred(2)>>}}

\* the server issues one well-formed pair of tokens, or refuses
DeskPairs ==
    {r \in PairResponses :
        ~r.ok \/ (r.access = Jwt(MaxExp * TickSec) /\ r.refresh = r.access)}

\* no registry file and no secret file exist
InitDesk ==
    /\ now = 0
    /\ encAvail = TRUE
    /\ config = NoConfig
    /\ files = EmptyFiles
    /\ apiConfig = "none"
    /\ stack = [t \in Tasks |-> <<>>]
    /\ done = [t \in Tasks |-> NoDone]
    /\ vt = NoVt
    /\ conn = FALSE
    /\ sessionStatus = NoSession
    /\ isSessionRefreshing = FALSE
    /\ display = "Checking..."
    /\ tueMemo = "stale"

NextDesk ==
    \/ \E req \in DeskRequests, writable \in BOOLEAN :
            CallUpdateEnvironment(Main, req, writable)
    \/ \E e \in DeskNames, writable \in BOOLEAN :
            CallDeleteEnvironment(Main, e, writable)
    \/ \E e \in DeskNames, writable \in BOOLEAN :
            CallSetActiveEnvironment(Main, e, writable)
    \/ \E a \in {"oauth", "pat"}, writable \in BOOLEAN :
            CallSetGlobalAuthType(Main, a, writable)
    \/ \E e \in EnvNames : CallUnifiedLogin(Main, e)
    \/ NetProbe(Main)
    \/ NetUuid(Main)
    \/ OpenBrowser(Main)
    \/ NetPoll(Main, DeskPairs)
    \/ PollSleep(Main)

SpecDesk == InitDesk /\ [][NextDesk]_vars

-----------------------------------------------------------------------------
(* The Token Codec on the text of a token                                  *)

MaxSegments == 4

\* One dot-separated segment of a token text: whether every character is of
\* the base64url alphabet, and what Buffer.from(segment, 'base64'), which
\* skips the characters that are not, decodes it to: a JSON claims object in
\* ASCII, a JSON claims object with a character of U+0080..U+00FF in a
\* string, text that is not JSON, or nothing.
Segment(alphabet, payload, exp) ==
    [alphabet |-> alphabet, payload |-> payload, exp |-> exp]
EmptySegment == Segment(TRUE, "empty", NaN)
Segments ==
    {EmptySegment}
      \cup {Segment(a, "claims", e) : a \in BOOLEAN, e \in {TickSec, NaN}}
      \cup {Segment(a, p, NaN) : a \in BOOLEAN, p \in {"claimsLatin1", "text"}}

\* token.split('.'): at least one segment
TokenTexts == UNION {[1..n -> Segments] : n \in 1..MaxSegments}

\* auth.ts parseJwt on the segments of token.split('.'): parts[1] is
\* undefined for a single segment (TypeError); the percent-encoding of the
\* decoded characters is a malformed URI for a character of
\* U+0080..U+00FF (URIError); JSON.parse throws on what is not JSON
ParseJwtParts(parts) ==
    CASE Len(parts) < 2 -> [throw |-> TRUE, exp |-> NaN]
      [] parts[2].payload = "claims" -> [throw |-> FALSE, exp |-> parts[2].exp]
      [] OTHER -> [throw |-> TRUE, exp |-> NaN]

\* a token text handed to parseJwt
TokenGiven(parts) ==
    [NoDone EXCEPT !.fn = "token", !.arg = [parts |-> parts, exp |-> NaN]]

ParseJwtDone(t, parts, r) ==
    /\ done' = [u \in Tasks |->
                  IF u = t
                  THEN [NoDone EXCEPT !.fn = "parseJwt", !.ok = ~r.throw,
                                      !.arg = [parts |-> parts, exp |-> r.exp]]
                  ELSE NoDone]
    /\ vt' = NoVt
    /\ UNCHANGED <<now, config, files, encAvail, apiConfig, stack, conn,
                   sessionStatus, isSessionRefreshing, display, tueMemo>>

\* auth.ts parseJwt(token), on the token text given
CallParseJwt(t) ==
    /\ Idle(t)
    /\ done[t].fn = "token"
    /\ ParseJwtDone(t, done[t].arg.parts, ParseJwtParts(done[t].arg.parts))

InitCodec ==
    /\ now = 0
    /\ encAvail = TRUE
    /\ config = NoConfig
    /\ files = EmptyFiles
    /\ apiConfig = "none"
    /\ stack = [t \in Tasks |-> <<>>]
    /\ \E parts \in TokenTexts :
          done = [t \in Tasks |-> IF t = Main THEN TokenGiven(parts) ELSE NoDone]
    /\ vt = NoVt
    /\ conn = FALSE
    /\ sessionStatus = NoSession
    /\ isSessionRefreshing = FALSE
    /\ display = "Checking..."
    /\ tueMemo = "stale"

NextCodec == CallParseJwt(Main)

SpecCodec == InitCodec /\ [][NextCodec]_vars

-----------------------------------------------------------------------------
(* Properties *)

Has(seq, e) == \E i \in DOMAIN seq : seq[i] = e

\* the requests a call can issue: refresh / token, exchange initiation,
\* polling, connectivity probe
Requests == {"refreshReq", "uuidReq", "poll", "probe"}
NoRequest(ev) == \A i \in DOMAIN ev : ev[i] \notin Requests

\* a refreshTokens call of task t waits for the answer to its request
RefreshInFlight(t) == Waiting(t, "RT", {"fetchOAuth", "fetchPAT"})

\* the event traces of all calls, pending and just finished
Traces ==
    {done[t].ev : t \in Tasks}
    \cup UNION {{stack[t][i].ev : i \in DOMAIN stack[t]} : t \in Tasks}

Moved(t) == stack'[t] # stack[t]

\* C1: at most one refresh runs at a time: while a refreshTokens call is in
\* flight, no second refresh network request is started, whichever of
\* refreshSession, manualRefreshSession and unifiedLogin asks for it.
C1_AtMostOneRefreshInFlight ==
    Cardinality({t \in Tasks : RefreshInFlight(t)}) <= 1

\* C2: validateTokens reports isValid = true only when a connectivity probe
\* issued during that validation was answered with HTTP 200.
C2_ValidOnlyAfterProbe ==
    vt.called /\ vt.pre.isValid => Has(vt.net, "p200")

\* C3: when no token set is stored under the global auth mode, validateTokens
\* reports isValid = false and needsRefresh = false, in both modes.
C3_AbsentNotRefreshable ==
    vt.called /\ vt.pre.absent => ~vt.pre.isValid /\ ~vt.pre.needsRefresh

\* C4 (as stated): whenever the stored access token is locally expired,
\* validateTokens reports isValid = false and needsRefresh = true and makes
\* no probe, in both modes.
C4_ExpiredAlwaysRefreshable ==
    vt.called /\ vt.pre.accessExpired =>
        ~vt.pre.isValid /\ vt.pre.needsRefresh /\ vt.net = <<>>

\* C4 (amended): whenever the stored access token is locally expired,
\* validateTokens reports isValid = false and makes no probe; needsRefresh is
\* true except in delegated mode when the refresh token is expired too or the
\* stored set is incomplete, where it is false.
C4_ExpiredAccessToken ==
    vt.called /\ vt.pre.accessExpired =>
        /\ ~vt.pre.isValid
        /\ vt.net = <<>>
        /\ vt.pre.needsRefresh <=>
              ~(vt.pre.authType = "oauth"
                /\ (vt.pre.refreshExpired \/ ~vt.pre.complete))

C4_Witness ==
    /\ vt.called
    /\ vt.pre.authType = "oauth"
    /\ vt.pre.accessExpired
    /\ vt.pre.refreshExpired
    /\ ~vt.pre.needsRefresh

\* C5: in delegated mode, when the stored refresh token's exp is in the past,
\* refreshTokens returns failure with 'Refresh token has expired', issues no
\* request and leaves every stored secret as it was.
C5_ExpiredRefreshToken ==
    [][(/\ done'[Main].fn = "RT"
        /\ done'[Main].pre.authType = "oauth"
        /\ done'[Main].pre.refreshExpired)
       => /\ ~done'[Main].ok
          /\ done'[Main].err = "Refresh token has expired"
          /\ done'[Main].ev = <<>>
          /\ files' = files]_vars

C5_Witness ==
    /\ done[Main].fn = "RT"
    /\ done[Main].pre.authType = "oauth"
    /\ done[Main].pre.refreshExpired
    /\ done[Main].err = "Refresh token has expired"

\* C6: the stored token set is written at most once per refresh round trip
\* and only right after a successful response carrying the required tokens;
\* outside a login's polling, secrets change only in the step in which a
\* pending refresh gets its answer, however the callers interleave.
C6_OneWritePerRoundTrip ==
    /\ [](\A ev \in Traces :
            \A i \in DOMAIN ev : ev[i] = "store" => i > 1 /\ ev[i - 1] = "r200")
    /\ [][files' # files =>
            \E t \in Tasks :
                Moved(t) /\ (RefreshInFlight(t) \/ Waiting(t, "UL", {"poll"}))]_vars

C6_Witness ==
    \E t, u \in Tasks :
        /\ t # u
        /\ done[t].fn \in {"RT", "UL"}
        /\ Has(done[t].ev, "store")
        /\ RefreshInFlight(u)

\* the session the renderer knows has passed its expiry
SessionExpired ==
    /\ sessionStatus.isValid
    /\ sessionStatus.expiry \notin {Undef, NaN}
    /\ sessionStatus.expiry <= NowMs

\* C7: if the application is connected and the session's expiry passes, a
\* call into the ConnectionService eventually occurs without the operator.
C7_ExpiryLeadsToRevalidation ==
    (conn /\ SessionExpired) ~> (\E t \in Tasks : stack[t] # <<>>)

\* C8: when unifiedLogin finds the stored tokens invalid and not refreshable
\* (absent, or delegated refresh token expired), it does not refresh but
\* starts the flow of the global auth mode from scratch, which begins by
\* rewriting the registry.
C8_NotRefreshableStartsFromScratch ==
    (/\ done[Main].fn = "UL"
     /\ done[Main].pre.envExists
     /\ ~done[Main].pre.isValid
     /\ (done[Main].pre.absent \/ done[Main].pre.refreshExpired))
    => ~Has(done[Main].ev, "rt") /\ Has(done[Main].ev, "setConfig")

\* C9 (as stated): unifiedLogin for an environment not in the registry, for
\* delegated mode without a tenant URL, or for service-credential mode
\* without client id and secret, fails with an error and issues no request.
C9_ConfigErrorsAlwaysTerminal ==
    (/\ done[Main].fn = "UL"
     /\ \/ ~done[Main].pre.envExists
        \/ done[Main].pre.authType = "oauth" /\ ~done[Main].pre.tenantSet
        \/ done[Main].pre.authType = "pat" /\ ~done[Main].pre.patConfigured)
    => ~done[Main].ok /\ done[Main].err # "" /\ NoRequest(done[Main].ev)

\* C9 (amended): the same, where the missing tenant URL of delegated mode
\* counts only when the stored delegated tokens are neither valid nor
\* refreshable.
C9_ConfigErrorsTerminal ==
    (/\ done[Main].fn = "UL"
     /\ \/ ~done[Main].pre.envExists
        \/ /\ done[Main].pre.authType = "oauth"
           /\ ~done[Main].pre.tenantSet
           /\ ~done[Main].pre.isValid
           /\ ~done[Main].pre.needsRefresh
        \/ done[Main].pre.authType = "pat" /\ ~done[Main].pre.patConfigured)
    => ~done[Main].ok /\ done[Main].err # "" /\ NoRequest(done[Main].ev)

C9_Witness ==
    /\ done[Main].fn = "UL"
    /\ done[Main].pre.authType = "oauth"
    /\ done[Main].pre.envExists
    /\ ~done[Main].pre.tenantSet
    /\ done[Main].err = "Tenant is required for OAuth login"

AtValidProbe(st) ==
    st # <<>> /\ Top(st).fn = "UL" /\ Top(st).pc = "probeValid"

\* C10: with valid stored tokens unifiedLogin only probes: its whole trace is
\* the probe and its answer, it succeeds exactly when the probe reports
\* connected, and neither a secret nor the registry changes on the way.
C10_ValidTokensOnlyProbe ==
    /\ [](done[Main].fn = "UL" /\ done[Main].pre.isValid =>
            \/ done[Main].ev = <<"probe", "p200">> /\ done[Main].ok
            \/ done[Main].ev = <<"probe", "pFail">> /\ ~done[Main].ok)
    /\ [][AtValidProbe(stack[Main]) \/ AtValidProbe(stack'[Main]) =>
            files' = files /\ config' = config]_vars

C10_Witness ==
    /\ done[Main].fn = "UL"
    /\ done[Main].pre.isValid
    /\ done[Main].ok
    /\ done[Main].ev = <<"probe", "p200">>


\* the frames of function fn among the pending calls st
FramesOf(st, fn) == {i \in DOMAIN st : st[i].fn = fn}

\* refreshTokens answered the refreshSession of task t with success = false
RefreshFailedIn(t) ==
    /\ Waiting(t, "RS", {"awaitRT"})
    /\ Top(stack[t]).ret.set
    /\ ~Top(stack[t]).ret.ok

\* unifiedLogin answered the reconnectSession of task t
ReconnectAnswered(t) ==
    /\ Waiting(t, "RC", {"awaitUL"})
    /\ Top(stack[t]).ret.set

\* C11: when refreshTokens fails inside refreshSession, the step that takes
\* the failure sets connected to false and starts exactly one reconnecting
\* unifiedLogin; the step that takes its answer sets connected to true iff it
\* returned success and starts no further reconnect; no task ever has two
\* reconnects pending.
C11_RefreshFailureReconnectsOnce ==
    /\ [](\A t \in Tasks : Cardinality(FramesOf(stack[t], "RC")) <= 1)
    /\ [][\A t \in Tasks :
            /\ RefreshFailedIn(t) /\ Moved(t) =>
                  /\ conn' = FALSE
                  /\ Cardinality(FramesOf(stack'[t], "RC")) = 1
                  /\ \/ Cardinality(FramesOf(stack'[t], "UL")) = 1
                     \/ done'[t].fn = "UL" /\ ReconnectAnswered(t)'
            /\ ReconnectAnswered(t) /\ Moved(t) =>
                  /\ conn' = Top(stack[t]).ret.ok
                  /\ FramesOf(stack'[t], "UL") = {}
                  /\ \A i \in FramesOf(stack'[t], "RC") :
                        stack'[t][i].pc = "awaitVCI"]_vars

C11_Witness ==
    \E t \in Tasks :
        /\ conn
        /\ Waiting(t, "VCI", {"gotVT"})
        /\ \E i \in FramesOf(stack[t], "RC") : stack[t][i].pc = "awaitVCI"

\* what makes every login and refresh fail inside: the registry cannot be
\* read, or encryption is unavailable
Damaged == ~config.readable \/ ~encAvail

OAuthSecrets(f) ==
    [n \in {BuildSecretFilePath(k, e) : k \in OAuthKeys, e \in EnvNames} |-> f[n]]

\* the step ends a delegated refresh or login attempt of Main in Success
EndsInSuccess ==
    \/ done'[Main].fn = "RT" /\ done'[Main].ok
    \/ /\ stack'[Main] # <<>>
       /\ Top(stack'[Main]).fn = "UL"
       /\ Top(stack'[Main]).pc \in {"probeRefreshed", "probeLogin"}

\* C13: a delegated login or refresh attempt that does not end in Success
\* leaves the four delegated secrets as they were: a step changes one of them
\* only if it completes the store of a successful attempt.
C13_FailedAttemptLeavesSecrets ==
    [][OAuthSecrets(files') # OAuthSecrets(files) => EndsInSuccess]_vars

\* the last call of Main was config.ts fn
Did(fn) == done[Main].fn = fn

\* C14: after deleteEnvironment(name) returned success, each of the eight
\* secret keys of that name has no file and reads as the empty string,
\* whichever auth mode is active and whichever secrets had been written.
C14_DeletePurgesAllSecrets ==
    Did("deleteEnvironment") /\ done[Main].ok =>
        \A k \in Keys :
            /\ ~files[BuildSecretFilePath(k, done[Main].env)].exists
            /\ GetSecureValue(files, k, done[Main].env) = NoVal

C14_Witness ==
    /\ Did("deleteEnvironment")
    /\ done[Main].ok
    /\ encAvail
    /\ config.authtype = "pat"
    /\ Has(done[Main].ev, KOAccess)
    /\ Has(done[Main].ev, KPatId)

\* the entries of registry cfg other than name, by place in iteration order
Others(cfg, name) ==
    {i \in DOMAIN cfg.environments : cfg.environments[i].name # name}

FirstOther(cfg, name) ==
    cfg.environments[CHOOSE i \in Others(cfg, name) :
                        \A j \in Others(cfg, name) : i <= j].name

EntriesOf(cfg, idx) == {cfg.environments[i] : i \in idx}

\* C15: deleteEnvironment(name) that returned success removed the entry of
\* name; the active pointer, if it was name, is the first remaining
\* environment in iteration order or the empty string when none remains,
\* and is unchanged otherwise; the other entries, their order and the
\* global auth mode are unchanged.
C15_DeleteEnvironmentRegistry ==
    Did("deleteEnvironment") /\ done[Main].ok =>
        /\ ~HasEnv(config, done[Main].env)
        /\ config.activeenvironment =
              IF done[Main].was.activeenvironment # done[Main].env
              THEN done[Main].was.activeenvironment
              ELSE IF Others(done[Main].was, done[Main].env) = {} THEN ""
              ELSE FirstOther(done[Main].was, done[Main].env)
        /\ EntriesOf(config, DOMAIN config.environments) =
              EntriesOf(done[Main].was, Others(done[Main].was, done[Main].env))
        /\ Len(config.environments) =
              Cardinality(Others(done[Main].was, done[Main].env))
        /\ \A i, j \in DOMAIN config.environments :
              i < j => EnvIndex(done[Main].was, config.environments[i].name)
                       < EnvIndex(done[Main].was, config.environments[j].name)
        /\ config.authtype = done[Main].was.authtype
        /\ config.readable

\* the active environment was deleted while another one remained
C15_Witness ==
    /\ Did("deleteEnvironment")
    /\ done[Main].ok
    /\ done[Main].was.activeenvironment = done[Main].env
    /\ Len(done[Main].was.environments) = 2
    /\ done[Main].was.environments[1].name = done[Main].env
    /\ config.activeenvironment = done[Main].was.environments[2].name

\* C16: deleteEnvironment of a name the readable registry has no entry for
\* returns failure with the does-not-exist error and changes nothing: the
\* registry is as the call found it and no secret file was unlinked.
C16_DeleteAbsentChangesNothing ==
    /\ Did("deleteEnvironment")
    /\ done[Main].was.readable
    /\ ~HasEnv(done[Main].was, done[Main].env)
    => /\ ~done[Main].ok
       /\ done[Main].err = "does not exist"
       /\ config = done[Main].was
       /\ done[Main].ev = <<>>

\* C17: setActiveEnvironment(name) on a readable registry without an entry
\* of name fails with the does-not-exist error and leaves the registry and
\* every secret as they were; with an entry of name it changes at most the
\* active-environment pointer, which on success is name: the environments,
\* their URLs, the global auth mode and every secret stay as they were.
C17_SetActiveChangesPointerOnly ==
    [][done'[Main].fn = "setActiveEnvironment" /\ config.readable =>
        /\ files' = files
        /\ config'.environments = config.environments
        /\ config'.authtype = config.authtype
        /\ config'.readable
        /\ IF HasEnv(config, done'[Main].env)
           THEN config'.activeenvironment =
                    IF done'[Main].ok THEN done'[Main].env
                    ELSE config.activeenvironment
           ELSE /\ ~done'[Main].ok
                /\ done'[Main].err = "does not exist"
                /\ config' = config]_vars

\* the registry updateEnvironment starts from
Found(cfg) == IF cfg.readable THEN cfg ELSE FreshConfig

BothSupplied(req) == Truthy(req.clientId) /\ Truthy(req.clientSecret)

\* C18: updateEnvironment(request) that returned success left an entry of
\* the request's name with the request's tenant and base URL, made that name
\* the active environment and the request's mode the global auth mode,
\* starting from a fresh registry when none was readable; the service
\* credential pair of the name holds the request's identifier and secret
\* when both were supplied and no secret file changed otherwise; every
\* other environment's entry and every other secret are unchanged.
C18_UpdateEnvironmentUpserts ==
    [][done'[Main].fn = "updateEnvironment" /\ done'[Main].ok =>
        /\ config'.readable
        /\ HasEnv(config', done'[Main].env)
        /\ EnvOf(config', done'[Main].env).tenanturl = done'[Main].arg.tenantUrl
        /\ EnvOf(config', done'[Main].env).baseurl = done'[Main].arg.baseUrl
        /\ config'.activeenvironment = done'[Main].env
        /\ config'.authtype = done'[Main].arg.authType
        /\ \A n \in RegistryNames \ {done'[Main].env} :
              /\ HasEnv(config', n) <=> HasEnv(Found(config), n)
              /\ HasEnv(config', n) => EnvOf(config', n) = EnvOf(Found(config), n)
        /\ IF BothSupplied(done'[Main].arg)
           THEN /\ GetSecureValue(files', KPatId, done'[Main].env)
                      = done'[Main].arg.clientId
                /\ GetSecureValue(files', KPatSecret, done'[Main].env)
                      = done'[Main].arg.clientSecret
                /\ \A n \in FileNames :
                      n \notin {BuildSecretFilePath(KPatId, done'[Main].env),
                                BuildSecretFilePath(KPatSecret, done'[Main].env)}
                      => files'[n] = files[n]
           ELSE files' = files]_vars

\* updateEnvironment applied again to what the application r1 left
Again(r1, req, writable) == UpdateEnvironment(r1.config, r1.files, req, writable)

SameState(r1, r2) == r1.config = r2.config /\ r1.files = r2.files

Idempotent(r1, req, writable) == SameState(r1, Again(r1, req, writable))

\* C19: from every registry and secret store the program reaches, applying
\* updateEnvironment twice in a row with the same request leaves the
\* registry and the secrets as applying it once does.
C19_UpdateEnvironmentIdempotent ==
    \A req \in UpdateRequests, writable \in BOOLEAN :
        Idempotent(UpdateEnvironment(config, files, req, writable), req, writable)

\* an application that changed the registry and stored credentials, and
\* whose repetition changes nothing
C19_Witness ==
    /\ Did("updateEnvironment")
    /\ done[Main].ok
    /\ done[Main].was.readable
    /\ done[Main].was # config
    /\ BothSupplied(done[Main].arg)
    /\ Len(config.environments) = 2
    /\ Again(RegResult(TRUE, "", config, files, <<>>), done[Main].arg, TRUE)
          = RegResult(TRUE, "", config, files, <<>>)

\* the pair the last Secret Store call of Main was about reads as v
ReadsAs(v) ==
    GetSecureValue(files, done[Main].arg.key, done[Main].arg.environment) = v

\* C20: after setSecureValue(key, environment, value) returned, for any value
\* including the empty string, getSecureValue(key, environment) returns
\* exactly value, whatever the pair held before; a getSecureValue that
\* follows the call returns that value, and the other pairs are as before.
C20_SecretRoundTrip ==
    /\ [](Did("setSecureValue") /\ done[Main].ok => ReadsAs(done[Main].arg.value))
    /\ [][/\ Did("setSecureValue")
          /\ done[Main].ok
          /\ done'[Main].fn = "getSecureValue"
          /\ done'[Main].arg.key = done[Main].arg.key
          /\ done'[Main].arg.environment = done[Main].arg.environment
          => done'[Main].arg.value = done[Main].arg.value]_vars
    /\ [][done'[Main].fn = "setSecureValue" =>
             \A n \in FileNames :
                n # BuildSecretFilePath(done'[Main].arg.key,
                                        done'[Main].arg.environment)
                => files'[n] = files[n]]_vars

\* the empty string was written over an earlier value and reads back
C20_Witness ==
    /\ Did("setSecureValue")
    /\ done[Main].ok
    /\ done[Main].arg.value = NoVal
    /\ done[Main].arg.old = Cred(1)
    /\ files[BuildSecretFilePath(done[Main].arg.key,
                                 done[Main].arg.environment)].exists
    /\ ReadsAs(NoVal)

\* the file of the pair the last Secret Store call of Main was about
PairFile(f) ==
    f[BuildSecretFilePath(done[Main].arg.key, done[Main].arg.environment)]

\* C21: getSecureValue of a pair that has no file returns the empty string
\* and does not throw, whether the pair was never written or its file was
\* removed by deleteSecureValue; deleteSecureValue returns normally, leaves
\* no file of the pair, and on a pair without a file changes nothing.
C21_AbsentReadsEmpty ==
    /\ [](Did("getSecureValue") /\ ~PairFile(files).exists =>
             done[Main].ok /\ done[Main].arg.value = NoVal)
    /\ [](Did("deleteSecureValue") =>
             done[Main].ok /\ ~PairFile(files).exists /\ ReadsAs(NoVal))
    /\ [][/\ done'[Main].fn = "deleteSecureValue"
          /\ ~files[BuildSecretFilePath(done'[Main].arg.key,
                                        done'[Main].arg.environment)].exists
          => files' = files]_vars
    /\ [][/\ Did("deleteSecureValue")
          /\ done'[Main].fn = "getSecureValue"
          /\ done'[Main].arg.key = done[Main].arg.key
          /\ done'[Main].arg.environment = done[Main].arg.environment
          => done'[Main].ok /\ done'[Main].arg.value = NoVal]_vars

\* a pair without a file was read while encryption was unavailable
C21_Witness ==
    /\ Did("getSecureValue")
    /\ ~encAvail
    /\ ~PairFile(files).exists
    /\ done[Main].ok
    /\ done[Main].arg.value = NoVal

\* C22: while the encryption facility is unavailable, setSecureValue throws
\* and changes no file, and getSecureValue throws instead of returning a
\* value.
C22_UnavailableEncryptionPropagates ==
    /\ [](~encAvail /\ Did("setSecureValue") => ~done[Main].ok)
    /\ [](~encAvail /\ Did("getSecureValue") => ~done[Main].ok)
    /\ [][~encAvail /\ done'[Main].fn = "setSecureValue" => files' = files]_vars

\* what the store f holds under key for the environment of Main's last call
Stored(f, key) == ReadSecret(f[BuildSecretFilePath(key, done'[Main].env)])

\* the expiry stored with a token: new Date(exp * 1000).toISOString()
ExpiryOf(token) == Iso(token.exp * 1000)

\* C23: a delegated refresh that returned success left the access token,
\* the refresh token and both expiries of the refresh response in the store,
\* the refresh token of the response included; one that returned failure
\* left the four delegated secrets as they were.
C23_RefreshReplacesInFull ==
    [][done'[Main].fn = "RT" /\ done'[Main].pre.authType = "oauth" =>
        IF done'[Main].ok
        THEN /\ Stored(files', KOAccess) = done'[Main].arg.access
             /\ Stored(files', KOExpiry) = ExpiryOf(done'[Main].arg.access)
             /\ Stored(files', KORefresh) = done'[Main].arg.refresh
             /\ Stored(files', KORefreshExpiry) = ExpiryOf(done'[Main].arg.refresh)
        ELSE OAuthSecrets(files') = OAuthSecrets(files)]_vars

\* the stored client identifier and secret of every environment
Credentials(f) ==
    [n \in {BuildSecretFilePath(k, e) : k \in {KPatId, KPatSecret},
                                        e \in EnvNames} |-> f[n]]

\* the step answers the pending service-credential token request of Main
TokenRequestAnswered == Waiting(Main, "RT", {"fetchPAT"}) /\ Moved(Main)

\* C24: the step that answers a service-credential token request leaves the
\* stored client identifier and secret as they were, whatever the answer;
\* when the answer is a non-success HTTP status the call fails with the
\* refresh error and no secret changes, the access token and its expiry
\* included.
C24_TokenRequestKeepsCredentials ==
    [][TokenRequestAnswered =>
        /\ Credentials(files') = Credentials(files)
        /\ Has(done'[Main].ev, "rFail") =>
              /\ ~done'[Main].ok
              /\ done'[Main].err = "Error refreshing tokens"
              /\ files' = files]_vars

\* a non-success answer while an access token was stored
C24_Witness ==
    /\ done[Main].fn = "RT"
    /\ done[Main].pre.authType = "pat"
    /\ Has(done[Main].ev, "rFail")
    /\ ~done[Main].ok
    /\ GetSecureValue(files, KPatAccess, done[Main].env) # NoVal
    /\ GetSecureValue(files, KPatId, done[Main].env) = Cred(1)

BothCredentialsStored(f, environment) ==
    /\ ReadSecret(f[BuildSecretFilePath(KPatId, environment)]) # NoVal
    /\ ReadSecret(f[BuildSecretFilePath(KPatSecret, environment)]) # NoVal

\* service-credential mode, both credentials stored, access token absent or
\* expired when the call started
StaleButConfigured(pre) ==
    /\ pre.authType = "pat"
    /\ pre.patConfigured
    /\ pre.accessAbsent \/ pre.accessExpired

RequiresCredentials == "Client ID and Client Secret are required for PAT login"

\* C25: a service-credential set is read as configured exactly when both the
\* client identifier and the client secret are stored; for a configured set
\* whose access token is absent or expired validateTokens reports not valid
\* and needing refresh, and unifiedLogin of a registered environment asks the
\* token endpoint for a new access token and does not fail as unconfigured.
C25_ConfiguredSetIsUsable ==
    /\ \A e \in EnvNames :
          GetStoredPATTokens(files, e).present <=> BothCredentialsStored(files, e)
    /\ vt.called /\ StaleButConfigured(vt.pre) =>
          ~vt.pre.isValid /\ vt.pre.needsRefresh
    /\ done[Main].fn = "UL" /\ done[Main].pre.envExists
       /\ StaleButConfigured(done[Main].pre) =>
          /\ Has(done[Main].ev, "rt")
          /\ Has(done[Main].ev, "rFail") \/ Has(done[Main].ev, "r200")
             \/ Has(done[Main].ev, "r200lacking")
          /\ done[Main].err # RequiresCredentials

\* unifiedLogin found the credentials without an access token, obtained one
\* and connected
C25_Witness ==
    /\ done[Main].fn = "UL"
    /\ StaleButConfigured(done[Main].pre)
    /\ done[Main].pre.accessAbsent
    /\ Has(done[Main].ev, "store")
    /\ done[Main].ok

OtherMode(authType) == IF authType = "oauth" THEN "pat" ELSE "oauth"

\* the secrets of one auth mode, of every environment
ModeSecrets(f, authType) ==
    [n \in {BuildSecretFilePath(k, e) : k \in ModeKeys(authType), e \in EnvNames}
        |-> f[n]]

\* C26: a step of validation, refresh or login leaves every secret of the
\* auth mode that is not the global one untouched; setGlobalAuthType changes
\* the global mode selector only, to the requested mode on success, and no
\* secret and no environment entry; a secret file disappears only in a
\* deleteEnvironment step.
C26_TokenSetsCoexist ==
    [][/\ done'[Main].fn # "deleteEnvironment" =>
              ModeSecrets(files', OtherMode(GetGlobalAuthType))
                = ModeSecrets(files, OtherMode(GetGlobalAuthType))
       /\ done'[Main].fn = "setGlobalAuthType" =>
              /\ files' = files
              /\ config' = [config EXCEPT !.authtype =
                                IF done'[Main].ok THEN done'[Main].arg.authType
                                ELSE @]
       /\ (\E n \in FileNames : files[n].exists /\ ~files'[n].exists) =>
              done'[Main].fn = "deleteEnvironment"]_vars

\* a delegated refresh stored a new token set, then the mode was switched
\* to service credentials: both token sets are in the store as they were
C26_Witness ==
    /\ Did("setGlobalAuthType")
    /\ done[Main].ok
    /\ done[Main].was.authtype = "oauth"
    /\ config.authtype = "pat"
    /\ GetSecureValue(files, KOAccess, "prod") = Jwt(2 * TickSec)
    /\ GetSecureValue(files, KORefresh, "prod") = Jwt(2 * TickSec)
    /\ GetSecureValue(files, KPatAccess, "prod") = Jwt(TickSec)
    /\ GetSecureValue(files, KPatId, "prod") = Cred(1)

\* the token set of the global mode was readable when the call started
SetStored(pre) == IF pre.authType = "oauth" THEN pre.complete ELSE pre.patConfigured

\* C27: checkAccessTokenStatus reports the access token valid exactly when
\* it was not locally expired and the probe was answered with HTTP 200; a
\* probe answered with another status or failing in transport gives not
\* valid with needsRefresh, and a stored token that is locally expired gives
\* not valid with needsRefresh and no probe at all.
C27_AccessTokenStatus ==
    Did("CATS") =>
        /\ done[Main].ok <=>
              ~done[Main].pre.accessExpired /\ Has(done[Main].ev, "p200")
        /\ done[Main].ok = done[Main].pre.isValid
        /\ Has(done[Main].ev, "pFail") \/ Has(done[Main].ev, "pErr") =>
              ~done[Main].pre.isValid /\ done[Main].pre.needsRefresh
        /\ SetStored(done[Main].pre) /\ done[Main].pre.accessExpired =>
              /\ ~done[Main].pre.isValid
              /\ done[Main].pre.needsRefresh
              /\ done[Main].ev = <<>>

\* an unexpired token was probed and the probe was answered with another
\* status than 200
C27_Witness ==
    /\ Did("CATS")
    /\ SetStored(done[Main].pre)
    /\ ~done[Main].pre.accessExpired
    /\ done[Main].ev = <<"probe", "pFail">>
    /\ ~done[Main].ok
    /\ done[Main].pre.needsRefresh

\* a token text that is not three segments with a middle segment that is
\* base64url of a JSON value
Malformed(parts) ==
    \/ Len(parts) # 3
    \/ ~parts[2].alphabet
    \/ parts[2].payload \notin {"claims", "claimsLatin1"}

\* C28: parseJwt throws for every token whose number of dot-separated
\* segments is not 3, whose middle segment is not base64url or whose decoded
\* middle segment is not JSON, and returns exactly the encoded claims for
\* every other token.
C28_ParseJwtRejectsMalformed ==
    Did("parseJwt") =>
        IF Malformed(done[Main].arg.parts)
        THEN ~done[Main].ok
        ELSE /\ done[Main].ok
             /\ done[Main].arg.exp = done[Main].arg.parts[2].exp

\* the login attempt of the main caller is in its polling loop, awaiting a
\* poll response or the end of a sleep
AtPc(st, pc) == st # <<>> /\ Top(st).fn = "UL" /\ Top(st).pc = pc
Polling(st) == AtPc(st, "poll") \/ AtPc(st, "sleep")

\* this step is the polling endpoint answering with resp
AnsweredWith(resp) == Apply(Main, PollResponse(Sigma(Main), resp))

\* C29: a poll answered with a non-success response or failing with a
\* network error puts the loop to sleep, and the sleep is followed by
\* another poll while less than 5 minutes have passed; a login attempt
\* leaves the polling loop only on a poll answered with success or, at the
\* end of a sleep, on the 5-minute timeout.
C29_PollingRetriesUntilTimeout ==
    [][/\ AtPc(stack[Main], "poll") =>
            /\ \A resp \in PollResponses :
                  ~resp.ok /\ AnsweredWith(resp) => AtPc(stack'[Main], "sleep")
            /\ ~Polling(stack'[Main]) =>
                  \E resp \in PollResponses : resp.ok /\ AnsweredWith(resp)
       /\ AtPc(stack[Main], "sleep") /\ stack'[Main] # stack[Main] =>
            IF NowMs - Top(stack[Main]).t0 < PollTimeout
            THEN AtPc(stack'[Main], "poll")
            ELSE /\ stack'[Main] = <<>>
                 /\ ~done'[Main].ok
                 /\ done'[Main].err = "Authentication timed out after 5 minutes"
      ]_vars

\* a poll went unanswered or was refused, the loop slept, and the attempt
\* ended on the timeout
C29_Witness ==
    /\ Did("UL")
    /\ ~done[Main].ok
    /\ done[Main].err = "Authentication timed out after 5 minutes"
    /\ Has(done[Main].ev, "poll")

\* a success response whose payload cannot be decoded: the IV:ciphertext
\* text or the decrypted JSON is malformed, or a token's claims do not parse
DecodeError(resp) ==
    /\ resp.ok
    /\ \/ ~resp.decoded
       \/ /\ Truthy(resp.access) /\ Truthy(resp.refresh)
          /\ ParseJwt(resp.access).throw \/ ParseJwt(resp.refresh).throw

\* C30: a poll answered with a payload that cannot be decoded ends the login
\* attempt as failed, and no further poll is made.
C30_DecodeErrorIsTerminal ==
    [][AtPc(stack[Main], "poll") =>
          \A resp \in PollResponses :
              DecodeError(resp) /\ AnsweredWith(resp) =>
                  /\ stack'[Main] = <<>>
                  /\ done'[Main].fn = "UL"
                  /\ ~done'[Main].ok
      ]_vars

\* the delegated login of the main caller is in state pc
InLogin(st) == \E pc \in {"uuid", "open", "poll", "sleep"} : AtPc(st, pc)

\* the requests of the polling loop a trace records
Polls(ev) == Cardinality({i \in DOMAIN ev : ev[i] = "poll"})

\* the trace of the call in progress, or of the call that has returned
TraceOf(st, d) == IF st # <<>> THEN Top(st).ev ELSE d.ev

\* the delegated login has ended: as Success (unifiedLogin goes on to read
\* the stored set), as Timeout or as Failed
Ended(st, d) ==
    IF st # <<>> THEN AtPc(st, "probeLogin")
    ELSE d.fn = "UL" /\ ~d.ok

\* C31: a delegated login passes Requesting, AwaitingUserAction and Polling
\* in this order only; a non-success response in Requesting ends it as
\* failed with no browser opened and no poll; it makes at most
\* timeout / poll interval polls; and, every request being answered, it
\* ends: as success, on the timeout or as failed.
C31_LoginAttemptTerminates ==
    /\ [][/\ AtPc(stack[Main], "uuid") /\ stack'[Main] # stack[Main] =>
                \/ AtPc(stack'[Main], "open")
                \/ /\ stack'[Main] = <<>>
                   /\ ~done'[Main].ok
                   /\ done'[Main].ev = <<"setConfig", "uuidReq">>
          /\ AtPc(stack[Main], "open") /\ stack'[Main] # stack[Main] =>
                AtPc(stack'[Main], "poll")
          /\ Polling(stack[Main]) /\ ~Polling(stack'[Main]) =>
                Ended(stack'[Main], done'[Main])
          /\ Polls(TraceOf(stack'[Main], done'[Main])) <= PollTimeout \div PollInterval
         ]_vars
    /\ InLogin(stack[Main]) ~> ~InLogin(stack[Main])

\* the loop made every poll the timeout allows and ended on the timeout
C31_Witness ==
    /\ Did("UL")
    /\ done[Main].err = "Authentication timed out after 5 minutes"
    /\ Polls(done[Main].ev) = PollTimeout \div PollInterval

\* task t waits for the renderer to run a continuation of
\* validateConnectionImmediately, refreshSession, reconnectSession or
\* manualRefreshSession
AtContinuation(t) ==
    \/ Waiting(t, "VCI", {"gotVT"})
    \/ /\ \/ Waiting(t, "RS", {"awaitRT"})
          \/ Waiting(t, "RC", {"awaitUL"})
          \/ Waiting(t, "MRS", {"awaitUL"})
       /\ Top(stack[t]).ret.set

\* task t waits for the answer to a refresh request, to the probe, to the
\* exchange-initiation request or for the browser to open
AwaitsAnswer(t) ==
    /\ stack[t] # <<>>
    /\ \/ Top(stack[t]).fn = "RT"
       \/ /\ Top(stack[t]).fn = "UL"
          /\ Top(stack[t]).pc \notin {"poll", "sleep"}

\* the two callers of SpecSession when every main-process call returns:
\* each request is answered (none is left waiting for ever), each timer
\* fires, a login that polls eventually leaves its polling loop,
\* and no continuation of the renderer is left waiting for ever
SpecSessionFair ==
    /\ SpecSession
    /\ \A t \in Tasks :
          /\ []<>(~AwaitsAnswer(t))
          /\ WF_vars(PollSleep(t))
          /\ []<>(~Polling(stack[t]))
          /\ []<>(~AtContinuation(t))

\* the refreshSession calls in progress that have set the flag
Refreshing(st) == Cardinality(FramesOf(st, "RS"))

\* C32: the in-progress flag is set exactly while one refreshSession call
\* that set it is in progress, and that call clears it when it returns;
\* no top-level call nests more than one refreshSession, one reconnect and
\* six calls in all (a top-level call, the validation, refreshSession, the
\* reconnect, its validation and the IPC call awaited); and, every
\* main-process call returning, every refreshing episode and every
\* top-level call ends.
C32_RefreshingTerminates ==
    /\ [][/\ isSessionRefreshing' <=> \E t \in Tasks : Refreshing(stack'[t]) = 1
          /\ \A t \in Tasks :
                /\ Refreshing(stack'[t]) <= 1
                /\ Cardinality(FramesOf(stack'[t], "RC")) <= 1
                /\ Len(stack'[t]) <= 6
                /\ Refreshing(stack[t]) = 1 /\ Refreshing(stack'[t]) = 0 =>
                      ~isSessionRefreshing'
         ]_vars
    /\ isSessionRefreshing ~> ~isSessionRefreshing
    /\ \A t \in Tasks : (stack[t] # <<>>) ~> (stack[t] = <<>>)

\* inside a refreshSession whose refresh failed and whose reconnect
\* succeeded, the nested validation finds the tokens invalid: the
\* refreshSession it calls next returns at once, the flag being set
C32_Witness ==
    \E t \in Tasks :
        /\ isSessionRefreshing
        /\ Refreshing(stack[t]) = 1
        /\ \E i \in FramesOf(stack[t], "RC") : stack[t][i].pc = "awaitVCI"
        /\ Waiting(t, "VCI", {"gotVT"})
        /\ ~Top(stack[t]).ret.isValid


\* C33: a unifiedLogin whose refresh request failed goes on to a new
\* authentication flow of the global auth mode: the exchange-initiation
\* request of the delegated flow, or the probe of the service-credential
\* flow.
C33_FailedRefreshStartsNewFlow ==
    Did("UL") /\ Has(done[Main].ev, "rFail") =>
        Has(done[Main].ev, "uuidReq") \/ Has(done[Main].ev, "probe")

\* validateTokens found a token set of the global mode with a parsable
\* access token and, in delegated mode, an unexpired refresh token
UsableSet(pre) ==
    /\ SetStored(pre)
    /\ ~pre.accessAbsent
    /\ ~pre.corrupt
    /\ ~pre.refreshExpired

\* C34: for a present token set validateTokens reports needsRefresh exactly
\* when checkTokenExpired holds of the stored access token at that instant
\* (expiry < now), in both auth modes.
C34_ValidateUsesExpiryTest ==
    vt.called /\ UsableSet(vt.pre) =>
        (vt.pre.needsRefresh <=> vt.pre.accessExpired)

\* the expiry stored under expiryKey is that of the token stored under
\* tokenKey, when both are stored
ExpiryMatches(f, environment, tokenKey, expiryKey) ==
    Truthy(GetSecureValue(f, tokenKey, environment))
      /\ Truthy(GetSecureValue(f, expiryKey, environment)) =>
        /\ ~ParseJwt(GetSecureValue(f, tokenKey, environment)).throw
        /\ NewDate(GetSecureValue(f, expiryKey, environment))
             = ExpToMs(ParseJwt(GetSecureValue(f, tokenKey, environment)).exp)

\* C35: in every reachable state, for each environment, a stored expiry is
\* 1000 times the exp claim of the token stored beside it: the access token
\* of either auth mode and the refresh token of the delegated mode.
C35_StoredExpiryMatchesToken ==
    \A e \in EnvNames :
        /\ ExpiryMatches(files, e, KOAccess, KOExpiry)
        /\ ExpiryMatches(files, e, KORefresh, KORefreshExpiry)
        /\ ExpiryMatches(files, e, KPatAccess, KPatExpiry)

\* the (key, environment) pairs other than the one the last call was for
OtherPairs(names) ==
    {p \in SecretKeys \X names :
        p # <<done'[Main].arg.key, done'[Main].arg.environment>>}

\* a setSecureValue or deleteSecureValue call leaves what getSecureValue
\* returns for every other pair of these names as it was
PairsIndependent(names) ==
    done'[Main].fn \in {"setSecureValue", "deleteSecureValue"} =>
        \A p \in OtherPairs(names) :
            GetSecureValue(files', p[1], p[2]) = GetSecureValue(files, p[1], p[2])

\* C36: setSecureValue or deleteSecureValue for one (key, environment) pair
\* never changes what getSecureValue returns for a different pair, whatever
\* the two environments are named.
C36_SecretsIndependent == [][PairsIndependent(TwinNames)]_vars

\* C37: apiConfig is replaced only by a connectivity probe that succeeded:
\* the program having started with apiConfig cleared, a first unifiedLogin
\* that returns success = false leaves it cleared.
C37_FailedLoginKeepsApiConfig ==
    Did("UL") /\ ~done[Main].ok => apiConfig = "none"

\* C39: whenever updateEnvironment or deleteEnvironment returns
\* success = false, neither the registry file nor any secret has changed.
C39_RegistryCallsAllOrNothing ==
    [][done'[Main].fn \in {"updateEnvironment", "deleteEnvironment"}
       /\ ~done'[Main].ok
          => config' = config /\ files' = files]_vars

\* C38: a unifiedLogin call that returns success = false leaves the registry
\* file unchanged: the active environment and the global auth mode are the
\* ones the call found, and so are the environment entries, which no login
\* writes.
C38_FailedLoginKeepsRegistry ==
    Did("UL") /\ ~done[Main].ok /\ config.readable =>
        /\ config.activeenvironment = done[Main].pre.active
        /\ config.authtype = done[Main].pre.authType

\* types.ts getTenants lines 56-86: the tenants marked active
ActiveTenants(cfg) ==
    {i \in DOMAIN cfg.environments : cfg.environments[i].name = cfg.activeenvironment}

\* the pointer is the empty string or names an environment of the registry,
\* and it is set whenever the registry has an environment
PointerSound(cfg) ==
    /\ cfg.activeenvironment = "" \/ HasEnv(cfg, cfg.activeenvironment)
    /\ cfg.environments # <<>> => cfg.activeenvironment # ""
    /\ cfg.environments # <<>> => Cardinality(ActiveTenants(cfg)) = 1

\* C40: starting from an empty registry, after any sequence of
\* updateEnvironment, deleteEnvironment, setActiveEnvironment,
\* setGlobalAuthType and unifiedLogin calls the active-environment pointer is
\* the empty string or names an existing environment, it is non-empty
\* whenever an environment exists, and getTenants marks exactly one tenant
\* active when any exist.
C40_ActivePointerSound == PointerSound(config)
====
